---- MODULE Spec2Model ----
(***************************************************************************)
(* Bank cache of REminiscence (Resource::clearBankData, getBankDataSize,   *)
(* findBankData, loadBankData in resource.cpp) together with its callers   *)
(* in video.cpp (Game::drawObject, Video::AMIGA_decodeLev,                 *)
(* Video::PC_decodeLev, Game::loadLevelData).                              *)
(*                                                                         *)
(* Pointers into the arena are modelled as byte offsets from _bankData;    *)
(* the null pointer is Null.  The two table blobs (_mbk file and _bnq      *)
(* file) are byte arrays given by BlobByte.                                *)
(***************************************************************************)
EXTENDS Integers, Sequences, FiniteSets, TLC

VARIABLES
    type,              \* Resource::_type
    mbk,               \* which blob Resource::_mbk points to: "MBK" or "BNQ"
    bankDataHead,      \* Resource::_bankDataHead - _bankData
    bankBuffers,       \* Resource::_bankBuffers[] (every slot of the array)
    bankBuffersCount,  \* Resource::_bankBuffersCount
    bankData,          \* bytes written into the arena, as disjoint byte runs
    status,            \* "running", or "aborted" after assert()/error()
    lastCall,          \* the bank call that completed last, with its locals
    nLoads,            \* number of banks loaded so far
    pc,                \* position of the caller (Game / Video code)
    dobj,              \* locals of Game::drawObject
    lev,               \* locals of Video::AMIGA_decodeLev / PC_decodeLev
    blindLoad,         \* whether loadBankData was ever called for a bank that
                       \* findBankData would have found
    frontLayer,        \* Video::_frontLayer, the pixels that differ from the
                       \* back layer
    screenBlocks,      \* Video::_screenBlocks, the blocks with a nonzero
                       \* countdown
    fullRefresh,       \* Video::_fullRefresh
    shakeOffset,       \* Video::_shakeOffset
    copyRects,         \* rectangles given to _stub->copyRect by the last
                       \* Video::updateScreen
    vcall,             \* the video call that completed last, with its locals
    markAge,           \* for each block marked since the last fullRefresh():
                       \* the updateScreen passes since its last mark, and
                       \* whether all of them ran without _fullRefresh
    nMarks,            \* number of rectangles marked so far
    curPos,            \* AnimBuffers::_curPos[4]
    states,            \* AnimBuffers::_states[4] - _animBufferNState
    animBuffer,        \* Game::_animBuffer0State .. _animBuffer3State
    eraseBackground,   \* Game::_eraseBackground
    loop,              \* position and history of Game::mainLoop
    numObjectNodes,    \* Resource::_numObjectNodes
    objectNodesMap,    \* Resource::_objectNodesMap[]
    heap,              \* the ObjectNode allocations and how often each was
                       \* freed
    ocall              \* the OBJ call that completed last, and the number
                       \* of load_OBJ calls so far

bankVars == <<type, mbk, bankDataHead, bankBuffers, bankBuffersCount, bankData,
              status, lastCall, nLoads, pc, dobj, lev, blindLoad>>

\* the bank cache and its callers, without the status of the process
bankRest == <<type, mbk, bankDataHead, bankBuffers, bankBuffersCount, bankData,
              lastCall, nLoads, pc, dobj, lev, blindLoad>>

videoVars == <<frontLayer, screenBlocks, fullRefresh, shakeOffset, copyRects,
               vcall, markAge, nMarks>>

animVars == <<curPos, states, animBuffer, eraseBackground, loop>>

objVars == <<numObjectNodes, objectNodesMap, heap, ocall>>

vars == <<bankVars, videoVars, animVars, objVars>>

cacheVars == <<bankDataHead, bankBuffers, bankBuffersCount, bankData>>

----------------------------------------------------------------------------
(* Program constants *)

kBankDataSize == 28672          \* 0x7000

NumBankBuffers == 100           \* ARRAYSIZE(_bankBuffers)

(* Bounds of the model *)

MaxLoads == 3                   \* banks loaded in one run

MaxFrames == 2                  \* frames of one object

Null == 0 - 1                   \* the null pointer

Uninit == 0 - 1                 \* content of an arena byte never written

ResourceTypes == {"Amiga", "DOS"}

----------------------------------------------------------------------------
(* The table blobs.  Both files hold NumBanks records of 6 bytes           *)
(* {offset : uint32 BE, len : uint16 BE} followed by the payload.          *)

\* length field of each record
RecLen ==
    <<32773,    \* 0x8005 top bit set
      512,      \* 0x0200 packed, 16384 bytes
      384,      \* 0x0180 packed, 12288 bytes
      897,      \* 0x0381 packed, 28704 bytes: larger than the arena
      65531,    \* 0xFFFB top bit set
      1,        \* 0x0001 packed, 32 bytes
      2,        \* 0x0002 packed, embedded length says 32
      1,        \* 0x0001 packed, offset 4
      1,        \* 0x0001 packed, bad CRC
      32767,    \* 0x7FFF packed, 1048544 bytes
      32768>>   \* 0x8000 top bit set

NumBanks == Len(RecLen)

Ids == 0 .. (NumBanks - 1)

\* low 16 bits of the offset field of each record
RecOff == <<352, 96, 128, 160, 192, 72, 516, 4, 548, 580, 600>>

\* high 16 bits of the offset field: on DOS the first record carries the
\* number of entries there
RecOffHigh(t, num) == IF t = "DOS" /\ num = 0 THEN NumBanks ELSE 0

\* the 32-bit length stored in the 4 bytes before a packed payload
PackedLen ==
    <<0, 16384, 12288, 28704, 0, 32, 32, 0, 32, 1048544, 0>>

\* whether the packed stream of each record passes the codec's checksum
PackedCrcOk ==
    <<TRUE, TRUE, TRUE, TRUE, TRUE, TRUE, TRUE, TRUE, FALSE, TRUE, TRUE>>

Byte(v, k) == (v \div (256 ^ k)) % 256

PayloadByte(blob, o) ==
    (o * 7 + (o \div 251) * 3 + (IF blob = "BNQ" THEN 101 ELSE 3)) % 256

BlobByte(blob, o) ==
    IF o < 6 * NumBanks
    THEN LET num == o \div 6
             k   == o % 6
         IN  IF k < 2 THEN Byte(RecOffHigh(type, num), 1 - k)
             ELSE IF k < 4 THEN Byte(RecOff[num + 1], 3 - k)
             ELSE Byte(RecLen[num + 1], 5 - k)
    ELSE IF \E n \in Ids : RecOff[n + 1] > 4 /\ RecLen[n + 1] < 32768
                           /\ o >= RecOff[n + 1] - 4 /\ o < RecOff[n + 1]
    THEN LET n == CHOOSE n \in Ids : RecOff[n + 1] > 4 /\ RecLen[n + 1] < 32768
                           /\ o >= RecOff[n + 1] - 4 /\ o < RecOff[n + 1]
         IN  Byte(PackedLen[n + 1], RecOff[n + 1] - 1 - o)
    ELSE PayloadByte(blob, o)

READ_BE_UINT16(blob, o) == BlobByte(blob, o) * 256 + BlobByte(blob, o + 1)

READ_BE_UINT32(blob, o) ==
    BlobByte(blob, o) * 16777216 + BlobByte(blob, o + 1) * 65536
    + BlobByte(blob, o + 2) * 256 + BlobByte(blob, o + 3)

\* (int16_t)v for v in 0 .. 65535
Int16(v) == IF v >= 32768 THEN v - 65536 ELSE v

\* v & m for m = 2^k - 1
AndMask(v, m) == v % (m + 1)

\* v & 0x8000 != 0 for v in 0 .. 65535
TopBit(v) == (v \div 32768) % 2 = 1

----------------------------------------------------------------------------
(* The arena's bytes.  bankData is a set of disjoint runs                  *)
(* [start, len, kind, blob, off, skip]: byte start + i of the arena holds  *)
(* byte off + skip + i of the blob (kind "raw", written by memcpy) or byte *)
(* skip + i of the output of unpacking the stream at off (kind "unp").     *)

RunEnd(r) == r.start + r.len

\* the runs of mem left after the bytes [s, s + n) are overwritten
CutRuns(mem, s, n) ==
    { [r EXCEPT !.len = (IF RunEnd(r) < s THEN r.len ELSE s - r.start)] :
          r \in { q \in mem : q.start < s } }
    \cup
    { [r EXCEPT !.start = (IF r.start > s + n THEN r.start ELSE s + n),
                !.skip  = (IF r.start > s + n THEN r.skip
                           ELSE r.skip + (s + n - r.start)),
                !.len   = (IF r.start > s + n THEN r.len
                           ELSE RunEnd(r) - (s + n))] :
          r \in { q \in mem : RunEnd(q) > s + n } }

WriteMem(mem, s, n, kind, blob, off) ==
    IF n <= 0 THEN mem
    ELSE CutRuns(mem, s, n)
         \cup { [start |-> s, len |-> n, kind |-> kind, blob |-> blob,
                 off |-> off, skip |-> 0] }

\* byte i of the output of delphine_unpack for the stream at off
UnpackByte(blob, off, i) == (PayloadByte(blob, off) + i * 13) % 256

\* the byte at arena offset o
ArenaByte(mem, o) ==
    IF \E r \in mem : r.start <= o /\ o < RunEnd(r)
    THEN LET r == CHOOSE r \in mem : r.start <= o /\ o < RunEnd(r)
         IN  IF r.kind = "raw"
             THEN BlobByte(r.blob, r.off + r.skip + (o - r.start))
             ELSE UnpackByte(r.blob, r.off, r.skip + (o - r.start))
    ELSE Uninit

----------------------------------------------------------------------------
(* Resource::getBankDataSize *)

\* variant: the DOS branch without the test of _mbk against _bnq
GetBankDataSizeMasked(num) ==
    LET len == READ_BE_UINT16(mbk, num * 6 + 4)
    IN  32 * (IF type = "Amiga"
              THEN (IF TopBit(len) THEN 0 - Int16(len) ELSE len)
              ELSE (IF TopBit(len) THEN AndMask(len, 32767) ELSE len))

GetBankDataSize(num) ==
    LET len == READ_BE_UINT16(mbk, num * 6 + 4)
    IN  32 * (IF type = "Amiga"
              THEN (IF TopBit(len) THEN 0 - Int16(len) ELSE len)
              ELSE (IF TopBit(len)
                    THEN (IF mbk = "BNQ" THEN 0 - Int16(len)
                          ELSE AndMask(len, 32767))
                    ELSE len))

(* Resource::findBankData *)

FindBankData(num) ==
    LET hits == { i \in 0 .. (bankBuffersCount - 1) :
                      bankBuffers[i].entryNum = num }
    IN  IF hits = {} THEN Null
        ELSE bankBuffers[CHOOSE i \in hits : \A j \in hits : i <= j].ptr

(* Resource::loadBankData, statement by statement *)

\* variant: the DOS masking of the offset left out
LoadDataOffsetUnmasked(num) == READ_BE_UINT32(mbk, num * 6)

LoadDataOffset(num) ==
    LET dataOffset == READ_BE_UINT32(mbk, num * 6)
    IN  IF type = "DOS" THEN AndMask(dataOffset, 65535) ELSE dataOffset

LoadAvail == kBankDataSize - bankDataHead

\* variant: avail <= size
LoadClearsOffByOne(num) == LoadAvail <= GetBankDataSize(num)

LoadClears(num) == LoadAvail < GetBankDataSize(num)

\* _bankDataHead and _bankBuffersCount after the optional clearBankData()
LoadHead(num) == IF LoadClears(num) THEN 0 ELSE bankDataHead

LoadCount(num) == IF LoadClears(num) THEN 0 ELSE bankBuffersCount

\* variant: the assertions compiled out
LoadFitsUnchecked(num) == TRUE

\* the two assertions before the entry is stored
LoadFits(num) ==
    /\ LoadHead(num) + GetBankDataSize(num) <= kBankDataSize
    /\ LoadCount(num) < NumBankBuffers

\* variant: _bankBuffersCount post-incremented in both stores
LoadEntriesTwice(num) ==
    [slots |-> [bankBuffers EXCEPT ![LoadCount(num)].entryNum = num,
                                   ![LoadCount(num) + 1].ptr = LoadHead(num)],
     count |-> LoadCount(num) + 2]

\* _bankBuffers and _bankBuffersCount after the entry is stored
LoadEntries(num) ==
    [slots |-> [bankBuffers EXCEPT ![LoadCount(num)] =
                    [entryNum |-> num, ptr |-> LoadHead(num)]],
     count |-> LoadCount(num)]

LoadIsRaw(num) == TopBit(READ_BE_UINT16(mbk, num * 6 + 4))

\* variant: the embedded length not compared with the size
LoadPackedChecksNoLength(num) == LoadDataOffset(num) > 4

\* the two assertions on a packed entry
LoadPackedChecks(num) ==
    /\ LoadDataOffset(num) > 4
    /\ GetBankDataSize(num) = READ_BE_UINT32(mbk, LoadDataOffset(num) - 4)

\* delphine_unpack(dst, src, 0): whether the checksum matches, and the number
\* of bytes it writes (the length in the 4 bytes before src)
UnpackOk(blob, off) == \A n \in Ids : RecOff[n + 1] = off => PackedCrcOk[n + 1]

UnpackLen(blob, off) == READ_BE_UINT32(blob, off - 4)

\* the arena's bytes after memcpy or delphine_unpack
LoadMem(num) ==
    IF LoadIsRaw(num)
    THEN WriteMem(bankData, LoadHead(num), GetBankDataSize(num),
                  "raw", mbk, LoadDataOffset(num))
    ELSE IF LoadPackedChecks(num)
    THEN WriteMem(bankData, LoadHead(num), UnpackLen(mbk, LoadDataOffset(num)),
                  "unp", mbk, LoadDataOffset(num))
    ELSE bankData

LoadDecodes(num) ==
    \/ LoadIsRaw(num)
    \/ LoadPackedChecks(num) /\ UnpackOk(mbk, LoadDataOffset(num))

LoadReturns(num) == LoadFits(num) /\ LoadDecodes(num)

\* the effect of one loadBankData(num) call on the cache and on the process
LoadBankData(num) ==
    /\ bankDataHead' = (IF LoadReturns(num)
                        THEN LoadHead(num) + GetBankDataSize(num)
                        ELSE LoadHead(num))
    /\ bankBuffers' = (IF LoadFits(num) THEN LoadEntries(num).slots
                       ELSE bankBuffers)
    /\ bankBuffersCount' = (IF LoadFits(num) THEN LoadEntries(num).count
                            ELSE LoadCount(num))
    /\ bankData' = (IF LoadFits(num) THEN LoadMem(num) ELSE bankData)
    /\ status' = (IF LoadReturns(num) THEN "running" ELSE "aborted")

LoadCall(num) ==
    [op |-> "load", num |-> num,
     ret |-> (IF LoadReturns(num) THEN LoadHead(num) ELSE Null),
     size |-> GetBankDataSize(num), avail |-> LoadAvail]

PureCall(op, num, ret) ==
    [op |-> op, num |-> num, ret |-> ret, size |-> 0, avail |-> 0]

(* Resource::clearBankData *)

\* variant: the head left where it is
ClearBankDataKeepsHead ==
    /\ bankBuffersCount' = 0
    /\ UNCHANGED <<bankDataHead, bankBuffers, bankData>>

ClearBankData ==
    /\ bankBuffersCount' = 0
    /\ bankDataHead' = 0
    /\ UNCHANGED <<bankBuffers, bankData>>

----------------------------------------------------------------------------
(* The callers *)

IdleObj == [slot |-> 0, data |-> Null, fresh |-> FALSE, left |-> 0]

IdleLev == [d0 |-> 0, d1 |-> 0, a6 |-> Null, fresh |-> FALSE,
            loop |-> FALSE, tmp |-> "MBK"]

Ready == status = "running" /\ pc = "idle" /\ nLoads < MaxLoads

(* Video::Video: the layers and the block grid are zeroed, the first       *)
(* updateScreen is a full refresh.                                         *)

EmptyMap == [o \in {} |-> 0]

NoVideoCall == [op |-> "none"]

InitVideo ==
    /\ frontLayer = EmptyMap
    /\ screenBlocks = EmptyMap
    /\ fullRefresh = TRUE
    /\ shakeOffset = 0
    /\ copyRects = <<>>
    /\ vcall = NoVideoCall
    /\ markAge = EmptyMap
    /\ nMarks = 0

(* Game::resetGameState: the four classes are empty, each write pointer is *)
(* at the start of its array.                                              *)

AnimClasses == 0 .. 3

\* Game::mainLoop between two iterations: pc, the iterations made, the
\* entities prepareAnims has still to visit, the index of the next drain,
\* _blinkingConradCounter, the calls of the iteration (events) and its
\* blits, and whether addState has written past the end of an array
IdleLoop ==
    [pc |-> "idle", frames |-> 0, room |-> <<>>, k |-> 1, blink |-> 0,
     events |-> <<>>, blits |-> <<>>, overrun |-> FALSE]

InitAnim ==
    /\ curPos = [c \in AnimClasses |-> 255]
    /\ states = [c \in AnimClasses |-> 0]
    /\ animBuffer = [c \in AnimClasses |-> <<>>]
    /\ eraseBackground = FALSE
    /\ loop = IdleLoop

(* Resource::Resource: no object nodes *)

InitObj ==
    /\ numObjectNodes = 0
    /\ objectNodesMap = <<>>
    /\ heap = <<>>
    /\ ocall = [op |-> "none", loads |-> 0]

(* Resource::Resource *)

InitBank ==
    /\ type \in ResourceTypes
    /\ mbk = "MBK"
    /\ bankDataHead = 0
    /\ bankBuffers = [i \in 0 .. (NumBankBuffers - 1) |->
                          [entryNum |-> 0, ptr |-> Null]]
    /\ bankBuffersCount = 0
    /\ bankData = {}
    /\ status = "running"
    /\ lastCall = PureCall("clear", 0, Null)
    /\ nLoads = 0
    /\ pc = "idle"
    /\ dobj = IdleObj
    /\ lev = IdleLev
    /\ blindLoad = FALSE
    /\ InitVideo
    /\ InitAnim
    /\ InitObj

(* Game::loadLevelData: _res.clearBankData() *)

CallClear ==
    /\ Ready
    /\ ClearBankData
    /\ lastCall' = PureCall("clear", 0, Null)
    /\ UNCHANGED <<videoVars, animVars, objVars, type, mbk, status, nLoads, pc, dobj, lev, blindLoad>>

(* a call of loadBankData on its own *)

CallLoad(num) ==
    /\ Ready
    /\ LoadBankData(num)
    /\ lastCall' = LoadCall(num)
    /\ nLoads' = nLoads + 1
    /\ blindLoad' = (blindLoad \/ FindBankData(num) # Null)
    /\ UNCHANGED <<videoVars, animVars, objVars, type, mbk, pc, dobj, lev, blindLoad>>

(* data = findBankData(num); if (data == 0) data = loadBankData(num);      *)
(* as in Game::drawObject and in the loop of Video::AMIGA_decodeLev.       *)

FindOrLoad(num) ==
    IF FindBankData(num) # Null
    THEN /\ UNCHANGED <<cacheVars, status>>
         /\ lastCall' = PureCall("find", num, FindBankData(num))
         /\ nLoads' = nLoads + 1
    ELSE /\ LoadBankData(num)
         /\ lastCall' = LoadCall(num)
         /\ nLoads' = nLoads + 1

FindOrLoadRet(num) ==
    IF FindBankData(num) # Null THEN FindBankData(num)
    ELSE IF LoadReturns(num) THEN LoadHead(num) ELSE Null

(* Game::drawObject *)

DrawObjectBegin(slot, count) ==
    /\ Ready
    /\ FindOrLoad(slot)
    /\ dobj' = [slot |-> slot, data |-> FindOrLoadRet(slot), fresh |-> TRUE,
                left |-> count]
    /\ pc' = "drawObject"
    /\ UNCHANGED <<videoVars, animVars, objVars, type, mbk, lev, blindLoad>>

\* variant: the loop loads the bank again and keeps drawing from data
DrawObjectFrameReloading ==
    /\ status = "running" /\ pc = "drawObject" /\ dobj.left > 0
    /\ LoadBankData(dobj.slot)
    /\ lastCall' = LoadCall(dobj.slot)
    /\ dobj' = [dobj EXCEPT !.left = dobj.left - 1,
                            !.fresh = dobj.fresh /\ ~LoadClears(dobj.slot)]
    /\ UNCHANGED <<videoVars, animVars, objVars, type, mbk, nLoads, pc, lev, blindLoad>>

\* one drawObjectFrame(data, dataPtr, posx, posy, flags) of the loop
DrawObjectFrame ==
    /\ status = "running" /\ pc = "drawObject" /\ dobj.left > 0
    /\ dobj' = [dobj EXCEPT !.left = dobj.left - 1]
    /\ UNCHANGED <<videoVars, animVars, objVars, type, mbk, cacheVars, status, lastCall, nLoads, pc, lev, blindLoad>>

DrawObjectEnd ==
    /\ status = "running" /\ pc = "drawObject" /\ dobj.left = 0
    /\ dobj' = IdleObj
    /\ pc' = "idle"
    /\ UNCHANGED <<videoVars, animVars, objVars, type, mbk, cacheVars, status, lastCall, nLoads, lev, blindLoad>>

(* Game::loadLevelMap: Video::AMIGA_decodeLev on Amiga, Video::PC_decodeLev *)
(* on DOS                                                                  *)

DecodeLevBegin ==
    /\ Ready
    /\ IF type = "DOS"
       THEN /\ mbk' = "BNQ"
            /\ ClearBankData
            /\ lastCall' = PureCall("clear", 0, Null)
            /\ lev' = [IdleLev EXCEPT !.loop = TRUE, !.tmp = mbk]
       ELSE /\ lev' = [IdleLev EXCEPT !.loop = TRUE]
            /\ UNCHANGED <<mbk, cacheVars, lastCall>>
    /\ UNCHANGED nLoads
    /\ pc' = "lev_loop"
    /\ UNCHANGED <<videoVars, animVars, objVars, type, status, dobj, blindLoad>>

\* d0 = READ_BE_UINT16(a1), its top bit ending the loop;
\* d1 = getBankDataSize(d0); a6 = findBankData(d0); if (!a6) a6 = loadBankData(d0)
LevLoad(d0, last) ==
    /\ status = "running" /\ pc = "lev_loop"
    /\ nLoads + 1 < MaxLoads \/ last
    /\ FindOrLoad(d0)
    /\ lev' = [lev EXCEPT !.d0 = d0,
                          !.d1 = GetBankDataSize(d0),
                          !.a6 = FindOrLoadRet(d0),
                          !.fresh = TRUE, !.loop = ~last]
    /\ pc' = "lev_copy"
    /\ UNCHANGED <<videoVars, animVars, objVars, type, mbk, dobj, blindLoad>>

\* the memcpy calls that read from a6
LevCopy ==
    /\ status = "running" /\ pc = "lev_copy"
    /\ pc' = (IF lev.loop THEN "lev_loop" ELSE "lev_done")
    /\ UNCHANGED <<videoVars, animVars, objVars, type, mbk, cacheVars, status, lastCall, nLoads, dobj, lev, blindLoad>>

DecodeLevEnd ==
    /\ status = "running" /\ pc = "lev_done"
    /\ IF type = "DOS"
       THEN /\ mbk' = lev.tmp
            /\ ClearBankData
            /\ lastCall' = PureCall("clear", 0, Null)
       ELSE UNCHANGED <<mbk, cacheVars, lastCall>>
    /\ lev' = IdleLev
    /\ pc' = "idle"
    /\ UNCHANGED <<videoVars, animVars, objVars, type, status, nLoads, dobj, blindLoad>>

NextBank ==
    \/ CallClear
    \/ \E num \in Ids : CallLoad(num)
    \/ \E slot \in Ids, count \in 0 .. MaxFrames : DrawObjectBegin(slot, count)
    \/ DrawObjectFrame
    \/ DrawObjectEnd
    \/ DecodeLevBegin
    \/ \E d0 \in Ids, last \in BOOLEAN : LevLoad(d0, last)
    \/ LevCopy
    \/ DecodeLevEnd

SpecBank == InitBank /\ [][NextBank]_vars

----------------------------------------------------------------------------
(* Properties of the bank cache *)

\* the live entries: slots 0 .. _bankBuffersCount - 1
Live == 0 .. (bankBuffersCount - 1)

LoadDone == lastCall.op = "load"

LoadReturned == status = "running" /\ lastCall.op = "load"

\* the length field, the offset and the embedded length of a record as the
\* files store them
FieldOf(num) == RecLen[num + 1]

OffsetOf(num) == RecOff[num + 1]

\* C1: after loadBankData(id) has returned p, findBankData(id) returns p
\* (stated on the state right after the call, before any clear).
C1_FindReturnsLoaded ==
    LoadReturned => FindBankData(lastCall.num) = lastCall.ret

\* C2: a loadBankData call that does not fit in the remaining space leaves
\* exactly one live entry, the bank just loaded at the arena start, and
\* head = arena start + its size.
C2_OverflowLeavesOneEntry ==
    (LoadReturned /\ lastCall.avail < lastCall.size) =>
        /\ bankBuffersCount = 1
        /\ bankBuffers[0] = [entryNum |-> lastCall.num, ptr |-> 0]
        /\ bankDataHead = lastCall.size

\* C3: while the calls return normally, arena start <= head <= tail and the
\* bytes of every live entry lie inside [arena start, head).
C3_HeadAndEntriesInArena ==
    status = "running" =>
        /\ 0 <= bankDataHead
        /\ bankDataHead <= kBankDataSize
        /\ \A i \in Live :
               /\ bankBuffers[i].ptr >= 0
               /\ bankBuffers[i].ptr + GetBankDataSize(bankBuffers[i].entryNum)
                      <= bankDataHead

\* a load that discarded the arena has returned and head has advanced
C3_Witness ==
    /\ LoadReturned
    /\ lastCall.avail < lastCall.size
    /\ bankDataHead > 0
    /\ bankDataHead <= kBankDataSize

\* C4: whenever drawObject is about to draw a frame from its bank pointer, or
\* AMIGA_decodeLev is about to copy from a6, no clearBankData has run since
\* the pointer was returned by findBankData or loadBankData.
C4_NoReadAfterClear ==
    status = "running" =>
        /\ (pc = "drawObject" /\ dobj.left > 0) => dobj.fresh
        /\ pc = "lev_copy" => lev.fresh

\* the second bank of a level loop was loaded with a clear inside the load,
\* and its copy is about to happen
C4_Witness ==
    /\ status = "running"
    /\ pc = "lev_copy"
    /\ nLoads >= 2
    /\ LoadDone
    /\ lastCall.avail < lastCall.size
    /\ lev.a6 = 0

\* C5: a loadBankData call resets head and empties the entry list exactly
\* when tail - head < size; otherwise head only advances by the size, the
\* live entries keep their slots and pointers and the bytes of the earlier
\* allocations stay as they were.
C5_DiscardExactlyOnOverflow ==
    [][(nLoads' = nLoads + 1 /\ lastCall'.op = "load") =>
         LET size  == GetBankDataSize(lastCall'.num)
             avail == kBankDataSize - bankDataHead
             done  == status' = "running"
         IN  IF avail < size
             THEN /\ bankDataHead' = (IF done THEN size ELSE 0)
                  /\ bankBuffersCount' <= 1
                  /\ bankBuffersCount' = 1 =>
                         bankBuffers'[0] = [entryNum |-> lastCall'.num, ptr |-> 0]
                  /\ lastCall'.ret = (IF done THEN 0 ELSE Null)
             ELSE /\ bankDataHead' = (IF done THEN bankDataHead + size
                                      ELSE bankDataHead)
                  /\ bankBuffersCount' >= bankBuffersCount
                  /\ bankBuffersCount' <= bankBuffersCount + 1
                  /\ \A i \in Live : bankBuffers'[i] = bankBuffers[i]
                  /\ \A r \in bankData :
                         RunEnd(r) <= bankDataHead => r \in bankData'
                  /\ lastCall'.ret = (IF done THEN bankDataHead ELSE Null)
      ]_vars

\* a second allocation was added behind the first and fills the arena exactly
C5_Witness ==
    /\ LoadReturned
    /\ lastCall.avail = lastCall.size
    /\ lastCall.ret > 0
    /\ bankDataHead = kBankDataSize
    /\ \E r \in bankData : r.start = 0 /\ RunEnd(r) = lastCall.ret

NoDuplicateIds ==
    \A i \in Live : \A j \in Live :
        bankBuffers[i].entryNum = bankBuffers[j].entryNum => i = j

\* C6: as long as loadBankData is only called for banks that findBankData
\* does not find, no two live entries have the same bank id.
C6_OneEntryPerId == ~blindLoad => NoDuplicateIds

\* drawObject has loaded a second bank after findBankData returned null
C6_Witness ==
    /\ status = "running"
    /\ pc = "drawObject"
    /\ ~blindLoad
    /\ nLoads >= 2
    /\ LoadDone
    /\ lastCall.ret > 0

\* the length L of the claim for the length field f
C7_Len(f, t, blob) ==
    IF f < 32768 THEN f
    ELSE IF t = "Amiga" THEN 65536 - f
    ELSE IF blob = "BNQ" THEN 65536 - f
    ELSE f - 32768

\* C7: getBankDataSize(id) = 32 * L, L decided by the top bit of the length
\* field, the platform and, on DOS, whether the active table is the BNQ one.
C7_SizeRule ==
    /\ LoadDone =>
           lastCall.size = 32 * C7_Len(FieldOf(lastCall.num), type, mbk)
    /\ pc = "lev_copy" => lev.d1 = 32 * C7_Len(FieldOf(lev.d0), type, mbk)

\* on DOS with the BNQ table active the size of a record with the top bit
\* set has been computed
C7_Witness ==
    /\ type = "DOS" /\ mbk = "BNQ" /\ pc = "lev_copy"
    /\ FieldOf(lev.d0) = 65531
    /\ lev.d1 = 160

C8_Case ==
    type = "DOS" /\ mbk = "BNQ" /\ pc = "lev_copy" /\ FieldOf(lev.d0) = 32773

\* C8 as stated: on DOS with the BNQ table active, the length field 0x8005
\* gives the size -5 * 32.
C8_SizeIsMinus160 == C8_Case => lev.d1 = 0 - 5 * 32

\* C8 amended: on DOS with the BNQ table active, the length field 0x8005
\* gives the size 32763 * 32 (the field read as the signed 16-bit value
\* -32763, negated).
C8_SizeIs32763Cells == C8_Case => lev.d1 = 32763 * 32

C8_Witness == C8_Case /\ lev.d1 = 1048416

\* whether arena byte o was written by memcpy
ArenaIsCopy(mem, o) ==
    \E r \in mem : r.start <= o /\ o < RunEnd(r) /\ r.kind = "raw"

\* C9: after loadBankData of a record with the top bit of the length field
\* set, the size bytes at the returned pointer are copies, byte for byte, of
\* the bytes of the table blob from the record's offset (its low 16 bits).
C9_RawIsCopied ==
    (LoadReturned /\ FieldOf(lastCall.num) >= 32768) =>
        \A i \in 0 .. (lastCall.size - 1) :
            /\ ArenaIsCopy(bankData, lastCall.ret + i)
            /\ ArenaByte(bankData, lastCall.ret + i)
                   = BlobByte(mbk, OffsetOf(lastCall.num) + i)

\* on DOS a raw record whose offset field has high bits set was loaded
\* behind another bank
C9_Witness ==
    /\ LoadReturned
    /\ type = "DOS"
    /\ FieldOf(lastCall.num) >= 32768
    /\ RecOffHigh(type, lastCall.num) > 0
    /\ lastCall.size = 160
    /\ lastCall.ret > 0

\* the cases in which the claim says loadBankData must abort
C10_MustAbort(num, size) ==
    \/ size > kBankDataSize
    \/ /\ FieldOf(num) < 32768
       /\ \/ OffsetOf(num) <= 4
          \/ PackedLen[num + 1] # size
          \/ ~PackedCrcOk[num + 1]

\* C10: loadBankData aborts when the size exceeds the arena's capacity or,
\* for a packed entry, the offset is not above 4, the embedded length differs
\* from the size or unpack fails; it then returns no pointer, and no byte is
\* ever written past the arena's tail.
C10_AbortsInsteadOfReturning ==
    /\ LoadDone =>
           (C10_MustAbort(lastCall.num, lastCall.size) =>
                status = "aborted" /\ lastCall.ret = Null)
    /\ \A r \in bankData : r.start >= 0 /\ RunEnd(r) <= kBankDataSize

\* a load of a packed bank that fits ended in the abort for a bad checksum
C10_Witness ==
    /\ status = "aborted"
    /\ LoadDone
    /\ lastCall.size <= kBankDataSize
    /\ ~PackedCrcOk[lastCall.num + 1]
    /\ lastCall.ret = Null

----------------------------------------------------------------------------
(* The raster.  A pixel of a layer is addressed by its offset              *)
(* 256 * y + x; a block of the dirty grid by its index                     *)
(* by * (_w / SCREENBLOCK_W) + bx.                                         *)

GAMESCREEN_W == 256

GAMESCREEN_H == 224

SCREENBLOCK_W == 8

SCREENBLOCK_H == 8

BlocksPerRow == GAMESCREEN_W \div SCREENBLOCK_W

BlockRows == GAMESCREEN_H \div SCREENBLOCK_H

\* a / b of C: the quotient is truncated towards zero
CDiv(a, b) == IF a >= 0 THEN a \div b ELSE 0 - ((0 - a) \div b)

\* bit k of v
Bit(v, k) == (v \div (2 ^ k)) % 2

\* a | b on bytes
RECURSIVE OrBits(_, _, _)
OrBits(a, b, n) ==
    IF n = 0
    THEN 0
    ELSE (IF a % 2 = 1 \/ b % 2 = 1 THEN 1 ELSE 0)
         + 2 * OrBits(a \div 2, b \div 2, n - 1)

OrByte(a, b) == OrBits(a, b, 8)

\* conversion of an int to int16_t
ToInt16(v) == Int16(v % 65536)

\* Video::_backLayer: the room background; some of its pixels carry the
\* 0x80 bit
BackByte(off) ==
    LET x == off % GAMESCREEN_W
        y == off \div GAMESCREEN_W
    IN  IF (x + y) % 4 = 1 THEN 128 + (x % 8) ELSE x % 8

\* the front layer after memcpy(_frontLayer, _backLayer) and the writes
\* recorded in fl
Pixel(fl, off) == IF off \in DOMAIN fl THEN fl[off] ELSE BackByte(off)

\* the decoded pixels of sprite pat (Resource::_memBuf for an object, the
\* decoded frame for a character): byte k; 0 is a transparent pixel
SrcByte(pat, k) == IF (k + pat) % 3 = 0 THEN 0 ELSE 1 + ((k * 5 + pat) % 63)

----------------------------------------------------------------------------
(* Video::drawSpriteSub1 .. drawSpriteSub6: v is the number of the variant *)

\* the source pixel read for row r, column i
SpriteSrcIndex(v, base, pitch, r, i) ==
    CASE v \in {1, 3} -> base + r * pitch + i
      [] v \in {2, 4} -> base + r * pitch - i
      [] v = 5 -> base + r + i * pitch
      [] v = 6 -> base + r - i * pitch

\* whether the destination pixel d refuses the write
SpriteBlockedNever(v, d) == FALSE

SpriteBlocked(v, d) == v >= 3 /\ d >= 128

\* the columns of a row: for (int i = 0; i < w; ++i)
SpriteColumnsPlusOne(w) == 0 .. w

SpriteColumns(w) == 0 .. (w - 1)

\* one pass of the inner loop, row r: the destination offsets written
DrawSpriteRow(v, pat, base, dst, pitch, r, w, fl) ==
    {dst + GAMESCREEN_W * r + i : i \in
        {j \in SpriteColumns(w) :
            /\ SrcByte(pat, SpriteSrcIndex(v, base, pitch, r, j)) # 0
            /\ ~SpriteBlocked(v, Pixel(fl, dst + GAMESCREEN_W * r + j))}}

\* while (h--) { ... src += pitch (or ++src); dst += 256; }
\* No two passes visit the same destination pixel (w <= 256), so every
\* test reads the layer as it was before the call.
DrawSprite(v, pat, base, dst, pitch, h, w, colMask, fl) ==
    LET offs == UNION {DrawSpriteRow(v, pat, base, dst, pitch, r, w, fl) :
                          r \in 0 .. (h - 1)}
    IN  [o \in DOMAIN fl \cup offs |->
            IF o \in offs
            THEN OrByte(SrcByte(pat, SpriteSrcIndex(v, base, pitch,
                                                    (o - dst) \div GAMESCREEN_W,
                                                    (o - dst) % GAMESCREEN_W)),
                        colMask)
            ELSE fl[o]]

----------------------------------------------------------------------------
(* Video::markBlockAsDirty *)

\* the assert()s on the rectangle
MarkAccepts(x, y, w, h) ==
    /\ x >= 0 /\ x + w <= GAMESCREEN_W
    /\ y >= 0 /\ y + h <= GAMESCREEN_H
    /\ CDiv(x + w - 1, SCREENBLOCK_W) < BlocksPerRow
    /\ CDiv(y + h - 1, SCREENBLOCK_H) < BlockRows

\* the blocks by1 .. by2 x bx1 .. bx2
MarkBlocks(x, y, w, h) ==
    {by * BlocksPerRow + bx :
        by \in CDiv(y, SCREENBLOCK_H) .. CDiv(y + h - 1, SCREENBLOCK_H),
        bx \in CDiv(x, SCREENBLOCK_W) .. CDiv(x + w - 1, SCREENBLOCK_W)}

\* _screenBlocks[...] = 2
MarkBlockAsDirtyOnce(sb, x, y, w, h) ==
    LET B == MarkBlocks(x, y, w, h)
    IN  [b \in DOMAIN sb \cup B |-> IF b \in B THEN 1 ELSE sb[b]]

MarkBlockAsDirty(sb, x, y, w, h) ==
    LET B == MarkBlocks(x, y, w, h)
    IN  [b \in DOMAIN sb \cup B |-> IF b \in B THEN 2 ELSE sb[b]]

\* the countdown of block b
Countdown(sb, b) == IF b \in DOMAIN sb THEN sb[b] ELSE 0

----------------------------------------------------------------------------
(* Video::updateScreen and Video::fullRefresh *)

Rect(x, y, w, h) == [x |-> x, y |-> y, w |-> w, h |-> h]

\* the run of nh blocks that ends before column i of row j
RunRectFromNext(i, j, nh) ==
    Rect((i - nh + 1) * SCREENBLOCK_W, j * SCREENBLOCK_H,
         nh * SCREENBLOCK_W, SCREENBLOCK_H)

RunRect(i, j, nh) ==
    Rect((i - nh) * SCREENBLOCK_W, j * SCREENBLOCK_H,
         nh * SCREENBLOCK_W, SCREENBLOCK_H)

\* the inner loop over the columns i .. of row j, entered with nh blocks
\* pending, and the test after it: the rectangles given to copyRect
RECURSIVE ScanRow(_, _, _, _)
ScanRow(sb, j, i, nh) ==
    IF i = BlocksPerRow
    THEN IF nh # 0 THEN <<RunRect(i, j, nh)>> ELSE <<>>
    ELSE IF Countdown(sb, j * BlocksPerRow + i) # 0
         THEN ScanRow(sb, j, i + 1, nh + 1)
         ELSE IF nh # 0
              THEN <<RunRect(i, j, nh)>> \o ScanRow(sb, j, i + 1, 0)
              ELSE ScanRow(sb, j, i + 1, 0)

\* the outer loop over the rows j ..: the rectangles in the order of the
\* calls
RECURSIVE ScanRowsFrom(_, _)
ScanRowsFrom(sb, j) ==
    IF j = BlockRows
    THEN <<>>
    ELSE ScanRow(sb, j, 0, 0) \o ScanRowsFrom(sb, j + 1)

ScanRows(sb) == ScanRowsFrom(sb, 0)

\* --p[i] for every block with p[i] != 0
ScanCountdowns(sb) ==
    [b \in {c \in DOMAIN sb : sb[c] > 1} |-> sb[b] - 1]

\* Video::updateScreen; presents: the arguments of the calls of
\* _stub->updateScreen
UpdateScreenForgetsShake ==
    /\ IF fullRefresh
       THEN /\ copyRects' = <<Rect(0, 0, GAMESCREEN_W, GAMESCREEN_H)>>
            /\ UNCHANGED screenBlocks
            /\ vcall' = [op |-> "updateScreen", full |-> TRUE,
                         shake |-> shakeOffset,
                         presents |-> <<shakeOffset>>]
       ELSE /\ copyRects' = ScanRows(screenBlocks)
            /\ screenBlocks' = ScanCountdowns(screenBlocks)
            /\ vcall' = [op |-> "updateScreen", full |-> FALSE,
                         shake |-> shakeOffset,
                         presents |-> IF ScanRows(screenBlocks) # <<>>
                                      THEN <<shakeOffset>>
                                      ELSE <<>>]
    /\ fullRefresh' = FALSE
    /\ shakeOffset' = 0

UpdateScreen ==
    /\ IF fullRefresh
       THEN /\ copyRects' = <<Rect(0, 0, GAMESCREEN_W, GAMESCREEN_H)>>
            /\ UNCHANGED screenBlocks
            /\ vcall' = [op |-> "updateScreen", full |-> TRUE,
                         shake |-> shakeOffset,
                         presents |-> <<shakeOffset>>]
       ELSE /\ copyRects' = ScanRows(screenBlocks)
            /\ screenBlocks' = ScanCountdowns(screenBlocks)
            /\ vcall' = [op |-> "updateScreen", full |-> FALSE,
                         shake |-> shakeOffset,
                         presents |-> IF ScanRows(screenBlocks) # <<>>
                                      THEN <<shakeOffset>>
                                      ELSE <<>>]
    /\ fullRefresh' = (shakeOffset # 0)
    /\ shakeOffset' = 0

\* Video::fullRefresh
FullRefreshKeepsGrid ==
    /\ fullRefresh' = TRUE
    /\ vcall' = [op |-> "fullRefresh"]
    /\ UNCHANGED <<screenBlocks, shakeOffset, copyRects>>

FullRefresh ==
    /\ fullRefresh' = TRUE
    /\ screenBlocks' = EmptyMap
    /\ vcall' = [op |-> "fullRefresh"]
    /\ UNCHANGED <<shakeOffset, copyRects>>

----------------------------------------------------------------------------
(* Game::drawObjectFrame and Game::drawCharacter: the locals at the call   *)
(* of the blit, or clipped = TRUE when the function returns before it.     *)

ClippedOut == [clipped |-> TRUE]

\* the blit chosen by drawObjectFrame
ObjectFrameVariantSwapped(erase, mir) ==
    IF erase THEN (IF mir THEN 4 ELSE 3) ELSE (IF mir THEN 2 ELSE 1)

ObjectFrameVariant(erase, mir) ==
    IF erase THEN (IF mir THEN 2 ELSE 1) ELSE (IF mir THEN 4 ELSE 3)

\* horizontal clipping of a sprite of width sw at sx; mir: drawn mirrored;
\* last: source offset of the last pixel of a row
ClipLeftKeepsSource(sx, sw, mir, last, step) ==
    [x |-> 0, w |-> ToInt16(sx + sw), mx |-> mir,
     base |-> IF mir THEN step * (sx + sw - 1) ELSE 0]

ClipLeft(sx, sw, mir, last, step) ==
    [x |-> 0, w |-> ToInt16(sx + sw), mx |-> mir,
     base |-> IF mir THEN step * (sx + sw - 1) ELSE 0 - step * sx]

\* end: sx + sw as the function computes it
ClipX(sx, sw, end, mir, last, step) ==
    IF sx >= 0
    THEN IF end < GAMESCREEN_W
         THEN [x |-> sx, w |-> sw, mx |-> FALSE, base |-> 0]
         ELSE [x |-> sx, w |-> ToInt16(GAMESCREEN_W - sx), mx |-> mir,
               base |-> IF mir THEN last ELSE 0]
    ELSE ClipLeft(sx, sw, mir, last, step)

\* vertical clipping of a sprite of height sh at sy; step: source offset
\* from one row to the next
ClipY(sy, sh, step) ==
    IF sy >= 0
    THEN [y |-> sy, add |-> 0,
          h |-> IF sy < GAMESCREEN_H - sh THEN sh
                ELSE ToInt16(GAMESCREEN_H - sy)]
    ELSE [y |-> 0, add |-> 0 - step * sy, h |-> ToInt16(sh + sy)]

\* the end of both functions, after the two early returns
ClipReturnsNever(cx, cy) == FALSE

ClipReturns(cx, cy) == cx.w <= 0 \/ cy.h <= 0

DrawLocals(cx, cy, mir, last, pitch, v, colMask) ==
    IF ClipReturns(cx, cy)
    THEN ClippedOut
    ELSE [clipped |-> FALSE, x |-> cx.x, y |-> cy.y, w |-> cx.w, h |-> cy.h,
          base |-> cx.base + cy.add + (IF ~cx.mx /\ mir THEN last ELSE 0),
          dst |-> GAMESCREEN_W * cy.y + cx.x,
          pitch |-> pitch, v |-> v, colMask |-> colMask]

\* Game::drawObjectFrame(bankDataPtr, dataPtr, x, y, flags) with
\* dataPtr[1 .. 3] = d1, d2, d3: position, size and direction of the sprite
ObjectFrameSprite(x, y, d1, d2, d3, flags) ==
    LET flip == Bit(flags, 1) = 1
        sf == IF flip
              THEN (IF Bit(d3, 4) = 1 THEN d3 - 16 ELSE d3 + 16)
              ELSE d3
    IN  [x |-> IF flip
               THEN ToInt16(x - d1 - (((d3 \div 4) % 4) * 4 + 4) * 2)
               ELSE ToInt16(x + d1),
         y |-> ToInt16(y + d2),
         w |-> (((sf \div 4) % 4) + 1) * 8,
         h |-> ((sf % 4) + 1) * 8,
         mir |-> Bit(sf, 4) = 1,
         var16 |-> FALSE]

ObjectFrameLocals(s, flags, erase) ==
    DrawLocals(ClipX(s.x, s.w, ToInt16(s.x + s.w), s.mir, s.w - 1, 1),
               ClipY(s.y, s.h, s.w), s.mir, s.w - 1, s.w,
               ObjectFrameVariant(erase, s.mir), ((flags \div 32) % 4) * 16)

\* Game::drawCharacter(dataPtr, pos_x, pos_y, a, b, flags)
CharacterSprite(pos_x, pos_y, a, b, flags) ==
    LET var16 == Bit(b, 6) = 1
    IN  [x |-> pos_x, y |-> pos_y,
         w |-> IF var16 THEN a ELSE b,
         h |-> IF var16 THEN b - 64 ELSE a,
         mir |-> Bit(flags, 1) = 1,
         var16 |-> var16]

CharacterLocals(s, flags) ==
    LET last == IF s.var16 THEN (s.w - 1) * s.h ELSE s.w - 1
    IN  DrawLocals(ClipX(s.x, s.w, s.x + s.w, s.mir, last,
                         IF s.var16 THEN s.h ELSE 1),
                   ClipY(s.y, s.h, IF s.var16 THEN 1 ELSE s.w), s.mir, last,
                   IF s.var16 THEN s.h ELSE s.w,
                   IF s.mir THEN (IF s.var16 THEN 6 ELSE 4)
                   ELSE (IF s.var16 THEN 5 ELSE 3),
                   IF (flags \div 32) % 4 = 3 THEN 80 ELSE 64)

\* conversion of an int to uint16_t
ToUint16(v) == v % 65536

\* the state a sprite call works on
VideoNow ==
    [fl |-> frontLayer, sb |-> screenBlocks, age |-> markAge, ok |-> TRUE]

\* Video::markBlockAsDirty called with the rectangle x, y, w, h: the grid,
\* or the abort of the process
MarkOn(st, x, y, w, h) ==
    IF MarkAccepts(x, y, w, h)
    THEN [st EXCEPT
             !.sb = MarkBlockAsDirty(st.sb, x, y, w, h),
             !.age = [b \in DOMAIN st.age \cup MarkBlocks(x, y, w, h) |->
                         IF b \in MarkBlocks(x, y, w, h)
                         THEN [passes |-> 0, plain |-> TRUE]
                         ELSE st.age[b]]]
    ELSE [st EXCEPT !.ok = FALSE]

\* the blit and the mark at the end of drawObjectFrame and drawCharacter,
\* for the sprite pixels pat and the locals loc; a negative height makes
\* the row loop of the blit run off the layer
DrawOn(st, pat, loc) ==
    IF ~st.ok \/ loc.clipped
    THEN st
    ELSE IF loc.h < 0
         THEN [st EXCEPT !.ok = FALSE]
         ELSE MarkOn([st EXCEPT !.fl = DrawSprite(loc.v, pat, loc.base,
                                                  loc.dst, loc.pitch, loc.h,
                                                  loc.w, loc.colMask, st.fl)],
                     loc.x, loc.y, ToUint16(loc.w), ToUint16(loc.h))

\* the video state left by a sprite call
VideoBecomes(st) ==
    /\ frontLayer' = st.fl
    /\ screenBlocks' = st.sb
    /\ markAge' = st.age
    /\ status' = IF st.ok THEN status ELSE "aborted"

Mark(x, y, w, h) == VideoBecomes(MarkOn(VideoNow, x, y, w, h))

Draw(pat, loc) == VideoBecomes(DrawOn(VideoNow, pat, loc))

----------------------------------------------------------------------------
(* The dirty grid on its own: rectangles marked by the drawing code        *)
(* (Video::drawString, Game::drawIcon, the sprite calls), and the passes   *)
(* of Game::mainLoop.                                                      *)

MaxMarks == 2                   \* rectangles marked in one run

\* the rectangles marked; the last one crosses the right edge
MarkRects ==
    {Rect(0, 0, 16, 8), Rect(8, 0, 8, 8), Rect(24, 0, 8, 8),
     Rect(240, 4, 16, 8), Rect(250, 0, 8, 8)}

\* blocks b covered by one of the rectangles of the last pass
Emitted(b) ==
    LET bx == b % BlocksPerRow
        by == b \div BlocksPerRow
    IN  \E k \in 1 .. Len(copyRects) :
            /\ copyRects[k].x <= bx * SCREENBLOCK_W
            /\ (bx + 1) * SCREENBLOCK_W <= copyRects[k].x + copyRects[k].w
            /\ copyRects[k].y <= by * SCREENBLOCK_H
            /\ (by + 1) * SCREENBLOCK_H <= copyRects[k].y + copyRects[k].h

Aged(full) ==
    [b \in DOMAIN markAge |->
        [passes |-> IF markAge[b].passes < 3
                    THEN markAge[b].passes + 1 ELSE 3,
         plain |-> markAge[b].plain /\ ~full]]

InitDirty ==
    /\ InitBank

CallMark(r) ==
    /\ status = "running"
    /\ nMarks < MaxMarks
    /\ nMarks' = nMarks + 1
    /\ Mark(r.x, r.y, r.w, r.h)
    /\ vcall' = IF MarkAccepts(r.x, r.y, r.w, r.h)
                THEN [op |-> "mark", rect |-> r]
                ELSE vcall
    /\ UNCHANGED <<frontLayer, fullRefresh, shakeOffset, copyRects>>
    /\ UNCHANGED <<bankRest, animVars, objVars>>

CallUpdateScreen ==
    /\ status = "running"
    /\ UpdateScreen
    /\ markAge' = Aged(fullRefresh)
    /\ UNCHANGED <<frontLayer, nMarks>>
    /\ UNCHANGED <<bankVars, animVars, objVars>>

CallFullRefresh ==
    /\ status = "running"
    /\ FullRefresh
    /\ markAge' = EmptyMap
    /\ UNCHANGED <<frontLayer, nMarks>>
    /\ UNCHANGED <<bankVars, animVars, objVars>>

\* the game code sets Video::_shakeOffset
CallShake(offset) ==
    /\ status = "running"
    /\ shakeOffset' = offset
    /\ UNCHANGED <<frontLayer, screenBlocks, fullRefresh, copyRects, vcall,
                   markAge, nMarks>>
    /\ UNCHANGED <<bankVars, animVars, objVars>>

NextDirty ==
    \/ \E r \in MarkRects : CallMark(r)
    \/ CallUpdateScreen
    \/ CallFullRefresh
    \/ \E offset \in {7} : CallShake(offset)

SpecDirty == InitDirty /\ [][NextDirty]_vars

----------------------------------------------------------------------------
(* Properties of the dirty grid *)

\* a step of SpecDirty that is an updateScreen pass without full refresh
PlainPass ==
    /\ status = "running"
    /\ ~fullRefresh
    /\ nMarks' = nMarks
    /\ shakeOffset' = 0
    /\ vcall'.op = "updateScreen"

\* the maximal runs of blocks with a nonzero countdown: first block and
\* length
Runs(sb) ==
    {r \in (DOMAIN sb) \X (1 .. BlocksPerRow) :
        LET col == r[1] % BlocksPerRow
        IN  /\ col + r[2] <= BlocksPerRow
            /\ \A k \in 0 .. (r[2] - 1) : Countdown(sb, r[1] + k) # 0
            /\ col = 0 \/ Countdown(sb, r[1] - 1) = 0
            /\ col + r[2] = BlocksPerRow \/ Countdown(sb, r[1] + r[2]) = 0}

\* the rectangle of a run
RectOfRun(r) ==
    Rect((r[1] % BlocksPerRow) * SCREENBLOCK_W,
         (r[1] \div BlocksPerRow) * SCREENBLOCK_H,
         r[2] * SCREENBLOCK_W, SCREENBLOCK_H)

\* C17 as stated: a marked block has countdown 2; after any two
\* updateScreen passes with no further mark its countdown is 0, its
\* rectangle was emitted in both passes, and it is not emitted in a later
\* pass.
C17_TwoPassesClear ==
    \A b \in DOMAIN markAge :
        /\ markAge[b].passes = 0 => Countdown(screenBlocks, b) = 2
        /\ markAge[b].passes = 2 => Countdown(screenBlocks, b) = 0
        /\ markAge[b].passes \in {1, 2} => Emitted(b)
        /\ markAge[b].passes = 3 => ~Emitted(b)

\* C17 (amended): a marked block has countdown 2; after two updateScreen
\* passes that both ran without the full-refresh flag, with no further mark
\* and no fullRefresh call since the mark, its countdown is 0, its rectangle was emitted
\* in both passes, and it is not emitted in a later pass until it is marked
\* again.
C17_TwoPlainPassesClear ==
    \A b \in DOMAIN markAge :
        markAge[b].plain =>
            /\ markAge[b].passes = 0 => Countdown(screenBlocks, b) = 2
            /\ markAge[b].passes = 1 => Countdown(screenBlocks, b) = 1
            /\ markAge[b].passes = 2 => Countdown(screenBlocks, b) = 0
            /\ markAge[b].passes \in {1, 2} => Emitted(b)
            /\ markAge[b].passes = 3 => ~Emitted(b)

C17_Witness ==
    \E b \in DOMAIN markAge :
        /\ markAge[b].plain
        /\ markAge[b].passes = 2
        /\ Countdown(screenBlocks, b) = 0
        /\ Emitted(b)

\* C18: an updateScreen pass without full refresh emits exactly one
\* rectangle per maximal run of blocks with nonzero countdown of a block
\* row (from the run's first block, as wide as the run, one block high),
\* decrements the countdown of every block of a run by 1 and leaves the
\* blocks with countdown 0 alone.
C18_OneRectPerRun ==
    [][PlainPass =>
        /\ {copyRects'[k] : k \in 1 .. Len(copyRects')}
               = {RectOfRun(r) : r \in Runs(screenBlocks)}
        /\ Len(copyRects') = Cardinality(Runs(screenBlocks))
        /\ \A b \in 0 .. (BlocksPerRow * BlockRows - 1) :
               Countdown(screenBlocks', b) =
                   IF Countdown(screenBlocks, b) # 0
                   THEN Countdown(screenBlocks, b) - 1
                   ELSE 0]_vars

C18_Witness ==
    /\ vcall.op = "updateScreen"
    /\ ~vcall.full
    /\ \E k \in 1 .. Len(copyRects) :
           /\ copyRects[k].w = 2 * SCREENBLOCK_W
           /\ k < Len(copyRects)
           /\ copyRects[k + 1].y = copyRects[k].y
    /\ \E b \in DOMAIN screenBlocks : screenBlocks[b] = 1

----------------------------------------------------------------------------
(* The sprite calls on their own: one call of drawObjectFrame,             *)
(* drawCharacter or of a blit on the front layer of a new frame.           *)

MaxBlitW == 3                   \* width given to a blit called on its own

MaxBlitH == 2                   \* height given to a blit called on its own

\* frames of objects: sprite pixels and dataPtr[1 .. 3]
ObjFrames ==
    {[pat |-> 0, d1 |-> 0, d2 |-> 0, d3 |-> 0],
     [pat |-> 1, d1 |-> 2, d2 |-> 1, d3 |-> 16],
     [pat |-> 2, d1 |-> 0, d2 |-> 0, d3 |-> 5]}

\* frames of characters: sprite pixels and the bytes a, b; the last one is
\* higher than the raster
CharFrames ==
    {[pat |-> 0, a |-> 12, b |-> 8],
     [pat |-> 1, a |-> 8, b |-> 64 + 12],
     [pat |-> 2, a |-> 230, b |-> 8]}

\* positions and flags given to the two functions
DrawArgs ==
    [xs |-> {0 - 40, 0 - 5, 0 - 3, 0, 7, 100, 250, 256, 300},
     ys |-> {0 - 40, 0 - 3, 0, 100, 220, 224},
     objFlags |-> {0, 2, 64},
     charFlags |-> {0, 2, 96}]

DrawOps == {"drawSprite", "drawObjectFrame", "drawCharacter"}

CanDraw == status = "running" /\ vcall.op \notin DrawOps

CallDrawObjectFrame(f, x, y, flags) ==
    LET s == ObjectFrameSprite(x, y, f.d1, f.d2, f.d3, flags)
        loc == ObjectFrameLocals(s, flags, eraseBackground)
    IN  /\ CanDraw
        /\ Draw(f.pat, loc)
        /\ vcall' = [op |-> "drawObjectFrame", pat |-> f.pat, sprite |-> s,
                     loc |-> loc]
        /\ UNCHANGED <<fullRefresh, shakeOffset, copyRects, nMarks>>
        /\ UNCHANGED <<bankRest, animVars, objVars>>

CallDrawCharacter(f, x, y, flags) ==
    LET s == CharacterSprite(x, y, f.a, f.b, flags)
        loc == CharacterLocals(s, flags)
    IN  /\ CanDraw
        /\ Draw(f.pat, loc)
        /\ vcall' = [op |-> "drawCharacter", pat |-> f.pat, sprite |-> s,
                     loc |-> loc]
        /\ UNCHANGED <<fullRefresh, shakeOffset, copyRects, nMarks>>
        /\ UNCHANGED <<bankRest, animVars, objVars>>

\* one of drawSpriteSub1 .. drawSpriteSub6 called with the arguments loc
CallDrawSprite(pat, loc) ==
    /\ CanDraw
    /\ frontLayer' = DrawSprite(loc.v, pat, loc.base, loc.dst, loc.pitch,
                                loc.h, loc.w, loc.colMask, frontLayer)
    /\ vcall' = [op |-> "drawSprite", pat |-> pat, loc |-> loc]
    /\ UNCHANGED <<screenBlocks, markAge, status>>
    /\ UNCHANGED <<fullRefresh, shakeOffset, copyRects, nMarks>>
    /\ UNCHANGED <<bankRest, animVars, objVars>>

\* Game::mainLoop: memcpy(_frontLayer, _backLayer), _vid.fullRefresh(), and
\* the flag set by Game::drawAnims
NewFrame ==
    /\ status = "running"
    /\ vcall.op \in DrawOps
    /\ frontLayer' = EmptyMap
    /\ FullRefresh
    /\ markAge' = EmptyMap
    /\ eraseBackground' \in BOOLEAN
    /\ UNCHANGED <<curPos, states, animBuffer, loop, nMarks>>
    /\ UNCHANGED <<bankVars, objVars>>

NextDraw ==
    \/ \E f \in ObjFrames, x \in DrawArgs.xs, y \in DrawArgs.ys,
          flags \in DrawArgs.objFlags :
           CallDrawObjectFrame(f, x, y, flags)
    \/ \E f \in CharFrames, x \in DrawArgs.xs, y \in DrawArgs.ys,
          flags \in DrawArgs.charFlags :
           CallDrawCharacter(f, x, y, flags)
    \/ \E v \in 1 .. 6, pat \in {0, 1}, dst \in {0, 513},
          w \in 0 .. MaxBlitW, h \in 0 .. MaxBlitH, colMask \in {0, 80} :
           CallDrawSprite(pat, [clipped |-> FALSE, v |-> v, base |-> 40,
                                dst |-> dst, pitch |-> 5, w |-> w, h |-> h,
                                colMask |-> colMask])
    \/ NewFrame

SpecDraw == InitBank /\ [][NextDraw]_vars

----------------------------------------------------------------------------
(* Properties of the sprite calls *)

\* a step of SpecDraw in which a blit ran with the arguments vcall'.loc
BlitRan ==
    /\ CanDraw
    /\ vcall'.op \in DrawOps
    /\ ~vcall'.loc.clipped
    /\ status' = "running"

\* the destination rectangle of a blit: the offset of row r, column i
DstOffsets(loc) ==
    {loc.dst + GAMESCREEN_W * r + i :
        r \in 0 .. (loc.h - 1), i \in 0 .. (loc.w - 1)}

\* C14: for each of the six blits, a destination pixel whose source pixel
\* is 0 is left unchanged, a pixel that is written receives the source
\* pixel OR colMask, and no pixel outside the w-by-h destination rectangle
\* is modified.
C14_BlitRules ==
    [][BlitRan =>
        LET loc == vcall'.loc
            pat == vcall'.pat
        IN  /\ \A r \in 0 .. (loc.h - 1), i \in 0 .. (loc.w - 1) :
                   LET o == loc.dst + GAMESCREEN_W * r + i
                       sv == SrcByte(pat, SpriteSrcIndex(loc.v, loc.base,
                                                         loc.pitch, r, i))
                   IN  /\ sv = 0 =>
                              /\ Pixel(frontLayer', o) = Pixel(frontLayer, o)
                              /\ o \in DOMAIN frontLayer' =>
                                     o \in DOMAIN frontLayer
                       /\ (o \in DOMAIN frontLayer' \ DOMAIN frontLayer
                              \/ Pixel(frontLayer', o) # Pixel(frontLayer, o))
                              => Pixel(frontLayer', o) = OrByte(sv, loc.colMask)
            /\ \A o \in DOMAIN frontLayer' \ DstOffsets(loc) :
                   /\ o \in DOMAIN frontLayer
                   /\ frontLayer'[o] = frontLayer[o]]_vars

C14_Witness ==
    /\ vcall.op = "drawSprite"
    /\ vcall.loc.v = 6
    /\ vcall.loc.w = MaxBlitW
    /\ vcall.loc.h = MaxBlitH
    /\ vcall.loc.colMask = 80
    /\ frontLayer # EmptyMap
    /\ Cardinality(DOMAIN frontLayer) < MaxBlitW * MaxBlitH

\* pixel (col, row) of the sprite s with pixels pat: rows of s.w pixels,
\* or columns of s.h pixels for a character stored column by column
SpritePixel(pat, s, col, row) ==
    SrcByte(pat, IF s.var16 THEN col * s.h + row ELSE row * s.w + col)

\* the case of C15: a sprite of width 8, not mirrored, at x = -3, with
\* rows on the raster
C15_Case ==
    /\ vcall.op \in {"drawObjectFrame", "drawCharacter"}
    /\ vcall.sprite.x = 0 - 3
    /\ vcall.sprite.w = 8
    /\ ~vcall.sprite.mir
    /\ vcall.sprite.y < GAMESCREEN_H
    /\ vcall.sprite.y + vcall.sprite.h > 0

\* C15: a non-mirrored sprite of width 8 drawn at x = -3 writes exactly the
\* destination columns 0 to 4, and destination column c takes source
\* column c + 3; for drawObjectFrame and for drawCharacter.
C15_ClipLeftByThree ==
    C15_Case =>
        /\ ~vcall.loc.clipped
        /\ vcall.loc.x = 0
        /\ vcall.loc.w = 5
        /\ \A o \in DOMAIN frontLayer :
               /\ o % GAMESCREEN_W \in 0 .. 4
               /\ frontLayer[o] =
                      OrByte(SpritePixel(vcall.pat, vcall.sprite,
                                         (o % GAMESCREEN_W) + 3,
                                         (o \div GAMESCREEN_W)
                                             - vcall.sprite.y),
                             vcall.loc.colMask)
        /\ \A c \in 0 .. 4, r \in 0 .. (vcall.loc.h - 1) :
               LET o == GAMESCREEN_W * (vcall.loc.y + r) + c
                   sv == SpritePixel(vcall.pat, vcall.sprite, c + 3,
                                     vcall.loc.y + r - vcall.sprite.y)
               IN  (sv # 0 /\ BackByte(o) < 128) => o \in DOMAIN frontLayer

C15_Witness ==
    /\ C15_Case
    /\ vcall.op = "drawCharacter"
    /\ vcall.sprite.var16
    /\ \A c \in 0 .. 4 : \E o \in DOMAIN frontLayer : o % GAMESCREEN_W = c

\* the sprite s has no pixel on the raster
OffRaster(s) ==
    \/ s.x + s.w <= 0
    \/ s.x >= GAMESCREEN_W
    \/ s.y + s.h <= 0
    \/ s.y >= GAMESCREEN_H

\* C16: drawObjectFrame and drawCharacter called for a sprite that lies
\* fully outside the raster return without writing a pixel of the front
\* layer, without changing a countdown of the dirty grid and without error.
C16_OffRasterIsNoOp ==
    [][(/\ CanDraw
        /\ vcall'.op \in {"drawObjectFrame", "drawCharacter"}
        /\ OffRaster(vcall'.sprite))
        => /\ vcall'.loc.clipped
           /\ frontLayer' = frontLayer
           /\ screenBlocks' = screenBlocks
           /\ status' = "running"]_vars

C16_Witness ==
    /\ vcall.op = "drawObjectFrame"
    /\ vcall.sprite.y + vcall.sprite.h <= 0
    /\ vcall.sprite.x = 0 - 3
    /\ vcall.loc.clipped
    /\ status = "running"
    /\ frontLayer = EmptyMap
    /\ screenBlocks = EmptyMap

----------------------------------------------------------------------------
(* One iteration of Game::mainLoop: prepareAnims fills the four classes,   *)
(* drawAnims drains them, Video::updateScreen presents the frame.  The     *)
(* bank lookup of Game::drawObject is the one of DrawObjectBegin; here the *)
(* pixels of an object are given by its pat.                               *)

MaxAnims == 2                   \* entries of the array of each class

MaxIter == 2                    \* iterations of Game::mainLoop in one run

\* live entities (LivePGE with the sprite data prepareAnimsHelper reads):
\* a character has flags & 8 = 0 and the bytes dw, dh, w, h of its sprite;
\* an object has flags & 8 # 0 and, in dw and dh, the bytes dataPtr[1] and
\* dataPtr[2] of its data, followed by one frame d1, d2, d3
CharPge(conrad, flags, pos_x, pos_y, pat, w, h) ==
    [conrad |-> conrad, flags |-> flags, object_type |-> 0,
     pos_x |-> pos_x, pos_y |-> pos_y, pat |-> pat,
     dw |-> 2, dh |-> 1, w |-> w, h |-> h, d1 |-> 0, d2 |-> 0, d3 |-> 0]

ObjPge(object_type, flags, pos_x, pos_y, pat, d3) ==
    [conrad |-> FALSE, flags |-> flags, object_type |-> object_type,
     pos_x |-> pos_x, pos_y |-> pos_y, pat |-> pat,
     dw |-> 1, dh |-> 1, w |-> 0, h |-> 0, d1 |-> 1, d2 |-> 0, d3 |-> d3]

\* Conrad, a monster of class 0, a monster out of sight, an object of type
\* 11, an object of class 0, an object of class 2
Pges ==
    [Conrad |-> CharPge(TRUE, 0, 20, 30, 0, 8, 12),
     Monster |-> CharPge(FALSE, 2, 24, 32, 1, 64 + 8, 12),
     FarMonster |-> CharPge(FALSE, 0, 300, 32, 1, 8, 12),
     Door |-> ObjPge(11, 8, 16, 28, 1, 0),
     Crate |-> ObjPge(0, 8, 18, 30, 2, 16),
     Lamp |-> ObjPge(0, 8 + 16, 14, 26, 0, 0)]

\* what the rooms visited by prepareAnims hold
Rooms ==
    {<<>>,
     <<Pges.Conrad, Pges.Door, Pges.Lamp>>,
     <<Pges.Crate, Pges.Monster, Pges.Conrad, Pges.Door>>,
     <<Pges.FarMonster, Pges.Door, Pges.Door>>,
     [i \in 1 .. (MaxAnims + 1) |-> Pges.Crate]}

\* Game::prepareAnimsHelper(pge, 0, 0): the class and the entry given to
\* addState, or add = FALSE when it returns before
PrepareAnimsHelper(pge) ==
    IF Bit(pge.flags, 3) = 0
    THEN LET cl == IF Bit(pge.w, 6) = 1 THEN pge.h ELSE pge.w % 64
             xpos == IF Bit(pge.flags, 1) = 1
                     THEN ToInt16(pge.dw + pge.pos_x - cl)
                     ELSE ToInt16(pge.pos_x - pge.dw)
             ypos == ToInt16(pge.pos_y - pge.dh + 2)
         IN  [add |-> ~(xpos <= 0 - 32 \/ xpos >= 256
                           \/ ypos < 0 - 48 \/ ypos >= 224),
              class |-> IF pge.conrad THEN 1
                        ELSE IF Bit(pge.flags, 4) = 1 THEN 2 ELSE 0,
              state |-> [x |-> xpos + 8, y |-> ypos, w |-> pge.w,
                         h |-> pge.h, pge |-> pge]]
    ELSE [add |-> TRUE,
          class |-> IF pge.object_type = 11 THEN 3
                    ELSE IF Bit(pge.flags, 4) = 1 THEN 2 ELSE 0,
          state |-> [x |-> ToInt16(pge.pos_x + 8),
                     y |-> ToInt16(pge.pos_y + 2), w |-> 0, h |-> 0,
                     pge |-> pge]]

\* AnimBuffers::addState(stateNum, ...): the entry is written at _states,
\* then _curPos and _states advance.  Nothing compares _states with the end
\* of the array: past the end, the write lands in whatever follows the
\* array and the process goes on (crash = FALSE) or dies (crash = TRUE).
AddState(stateNum, state, crash) ==
    IF states[stateNum] >= MaxAnims /\ crash
    THEN /\ status' = "aborted"
         /\ UNCHANGED <<curPos, states, animBuffer>>
         /\ loop' = [loop EXCEPT !.room = Tail(@)]
    ELSE /\ animBuffer' = [animBuffer EXCEPT ![stateNum] = Append(@, state)]
         /\ curPos' = [curPos EXCEPT ![stateNum] = (@ + 1) % 256]
         /\ states' = [states EXCEPT ![stateNum] = @ + 1]
         /\ loop' = [loop EXCEPT
                        !.room = Tail(@),
                        !.events = Append(@, [ev |-> "add",
                                              class |-> stateNum]),
                        !.overrun = @ \/ states[stateNum] >= MaxAnims]
         /\ UNCHANGED status

\* Game::drawObject and Game::drawCharacter called by drawAnimBuffer for
\* the entry state: the locals of the blit
StateLocals(state, erase) ==
    LET pge == state.pge
    IN  IF Bit(pge.flags, 3) = 0
        THEN CharacterLocals(CharacterSprite(state.x, state.y, state.h,
                                             state.w, pge.flags), pge.flags)
        ELSE ObjectFrameLocals(
                 ObjectFrameSprite(
                     IF Bit(pge.flags, 1) = 1
                     THEN ToInt16(state.x + pge.dw)
                     ELSE ToInt16(state.x - pge.dw),
                     ToInt16(state.y - pge.dh),
                     pge.d1, pge.d2, pge.d3, pge.flags),
                 pge.flags, erase)

\* if (stateNum == 1 && (_blinkingConradCounter & 1)) break;
BlinkStopsAnyClass(stateNum, blink) == blink % 2 = 1

BlinkStops(stateNum, blink) == stateNum = 1 /\ blink % 2 = 1

\* Game::drawAnimBuffer(stateNum, ...): the do-while loop from entry k
\* down to entry 1; d holds the video state and the calls of drawCharacter
\* and drawObject made, each with the place and the content of its entry
RECURSIVE DrawAnimBufferFrom(_, _, _, _)
DrawAnimBufferFrom(stateNum, k, erase, d) ==
    IF k = 0
    THEN d
    ELSE LET state == animBuffer[stateNum][k]
             isChar == Bit(state.pge.flags, 3) = 0
             loc == StateLocals(state, erase)
         IN  IF isChar /\ BlinkStops(stateNum, loop.blink)
             THEN d
             ELSE DrawAnimBufferFrom(stateNum, k - 1, erase,
                      [v |-> DrawOn(d.v, state.pge.pat, loc),
                       blits |-> Append(d.blits,
                                        [class |-> stateNum,
                                         entry |-> k,
                                         state |-> state,
                                         object |-> ~isChar,
                                         clipped |-> loc.clipped,
                                         v |-> IF loc.clipped THEN 0
                                               ELSE loc.v])])

\* the order of the calls of drawAnimBuffer in Game::drawAnims
DrainOrderAscending == <<0, 1, 2, 3>>

DrainOrder == <<2, 1, 0, 3>>

\* the value of _eraseBackground during drawAnimBuffer(stateNum, ...)
EraseFor(stateNum) ==
    IF stateNum = DrainOrder[1] THEN FALSE
    ELSE IF stateNum = DrainOrder[4] THEN TRUE
    ELSE eraseBackground

FrameReady == status = "running" /\ loop.pc = "idle" /\ loop.frames < MaxIter

\* an iteration that returns before it draws (cutscene, change of level)
MainLoopReturns ==
    /\ FrameReady
    /\ loop' = [loop EXCEPT !.frames = @ + 1, !.events = <<>>,
                            !.blits = <<>>]
    /\ UNCHANGED <<curPos, states, animBuffer, eraseBackground>>
    /\ UNCHANGED <<bankVars, videoVars, objVars>>

\* the start of an iteration that draws: memcpy of the back layer, the
\* processing of the entities (which sets _loadMap and
\* _blinkingConradCounter), _vid.fullRefresh() if _loadMap
MainLoopBegin(room, loadMap, blink) ==
    /\ FrameReady
    /\ frontLayer' = EmptyMap
    /\ IF loadMap
       THEN FullRefresh /\ markAge' = EmptyMap
       ELSE UNCHANGED <<fullRefresh, screenBlocks, vcall, shakeOffset,
                        copyRects, markAge>>
    /\ loop' = [loop EXCEPT !.pc = "prepareAnims", !.room = room,
                            !.blink = blink, !.events = <<>>,
                            !.blits = <<>>]
    /\ UNCHANGED <<curPos, states, animBuffer, eraseBackground, nMarks>>
    /\ UNCHANGED <<bankVars, objVars>>

\* Game::prepareAnims: the next entity of the room
PrepareAnims(crash) ==
    /\ status = "running"
    /\ loop.pc = "prepareAnims"
    /\ loop.room # <<>>
    /\ LET r == PrepareAnimsHelper(Head(loop.room))
       IN  IF r.add
           THEN AddState(r.class, r.state, crash)
           ELSE /\ loop' = [loop EXCEPT !.room = Tail(@)]
                /\ UNCHANGED <<curPos, states, animBuffer, status>>
    /\ UNCHANGED <<eraseBackground, bankRest, videoVars, objVars>>

\* Game::drawAnims: the next call of drawAnimBuffer
DrawAnims ==
    /\ status = "running"
    /\ \/ loop.pc = "prepareAnims" /\ loop.room = <<>>
       \/ loop.pc = "drawAnims"
    /\ LET stateNum == DrainOrder[loop.k]
           erase == EraseFor(stateNum)
           n == IF curPos[stateNum] = 255 THEN 0 ELSE curPos[stateNum] + 1
           d == DrawAnimBufferFrom(stateNum, n, erase,
                                   [v |-> VideoNow, blits |-> loop.blits])
       IN  /\ eraseBackground' = erase
           /\ states' = [states EXCEPT ![stateNum] = 0]
           /\ curPos' = [curPos EXCEPT ![stateNum] = 255]
           /\ animBuffer' = [animBuffer EXCEPT ![stateNum] = <<>>]
           /\ VideoBecomes(d.v)
           /\ loop' = [loop EXCEPT
                          !.pc = IF loop.k = 4 THEN "updateScreen"
                                 ELSE "drawAnims",
                          !.k = IF loop.k = 4 THEN 1 ELSE loop.k + 1,
                          !.blits = d.blits,
                          !.events = Append(@, [ev |-> "drain",
                                                class |-> stateNum,
                                                erase |-> erase])]
    /\ UNCHANGED <<fullRefresh, shakeOffset, copyRects, vcall, nMarks>>
    /\ UNCHANGED <<bankRest, objVars>>

\* the end of the iteration: _blinkingConradCounter, _vid.updateScreen()
MainLoopEnd ==
    /\ status = "running"
    /\ loop.pc = "updateScreen"
    /\ UpdateScreen
    /\ markAge' = Aged(fullRefresh)
    /\ loop' = [loop EXCEPT
                   !.pc = "idle", !.frames = @ + 1,
                   !.blink = IF @ # 0 THEN @ - 1 ELSE 0,
                   !.events = Append(@, [ev |-> "present"])]
    /\ UNCHANGED <<frontLayer, nMarks>>
    /\ UNCHANGED <<curPos, states, animBuffer, eraseBackground>>
    /\ UNCHANGED <<bankVars, objVars>>

NextFrame ==
    \/ MainLoopReturns
    \/ \E room \in Rooms, loadMap \in BOOLEAN, blink \in 0 .. 1 :
           MainLoopBegin(room, loadMap, blink)
    \/ \E crash \in BOOLEAN : PrepareAnims(crash)
    \/ DrawAnims
    \/ MainLoopEnd

SpecFrame == InitBank /\ [][NextFrame]_vars

----------------------------------------------------------------------------
(* Properties of the iteration *)

\* C11: addState on a class whose array is full terminates the process; no
\* entry is written past the end of the array and no cursor goes past the
\* last slot.
C11_FullClassIsFatal ==
    /\ \A c \in AnimClasses :
           /\ states[c] <= MaxAnims
           /\ Len(animBuffer[c]) <= MaxAnims
    /\ loop.overrun => status = "aborted"

\* place of a call in the iteration: the calls of addState, the drains of
\* class 2, 1, 0 and 3, the call of updateScreen
C12_Rank(e) ==
    CASE e.ev = "add" -> 0
      [] e.ev = "drain" /\ e.class = 2 -> 1
      [] e.ev = "drain" /\ e.class = 1 -> 2
      [] e.ev = "drain" /\ e.class = 0 -> 3
      [] e.ev = "drain" /\ e.class = 3 -> 4
      [] e.ev = "present" -> 5

\* C12: in an iteration of mainLoop that draws, all calls of addState come
\* first, then the drain of class 2, of class 1 and of class 0 with
\* _eraseBackground false, then the drain of class 3 with _eraseBackground
\* true, then updateScreen; no class is drained twice, and updateScreen
\* follows the four drains.
C12_FrameOrder ==
    LET ev == loop.events
    IN  /\ \A i \in 1 .. Len(ev), j \in 1 .. Len(ev) :
               i < j =>
                   \/ C12_Rank(ev[i]) < C12_Rank(ev[j])
                   \/ ev[i].ev = "add" /\ ev[j].ev = "add"
        /\ \A i \in 1 .. Len(ev) :
               ev[i].ev = "drain" => ev[i].erase = (ev[i].class = 3)
        /\ \A i \in 1 .. Len(ev) :
               ev[i].ev = "present" =>
                   Cardinality({j \in 1 .. Len(ev) : ev[j].ev = "drain"}) = 4

C12_Witness ==
    /\ loop.pc = "idle"
    /\ Len(loop.events) = 9
    /\ loop.events[4].ev = "add"
    /\ loop.events[9].ev = "present"
    /\ loop.blits # <<>>

\* whether the blit v leaves alone a destination pixel whose 0x80 bit is set
RespectsPriority(v) == SpriteBlocked(v, 128)

\* C13 as stated: an object of class 3 is blitted with the rule that leaves
\* alone the destination pixels whose 0x80 bit is set, an object of class
\* 0, 1 or 2 with the rule that looks at the source pixel only.
C13_Buffer3RespectsPriority ==
    \A k \in 1 .. Len(loop.blits) :
        LET b == loop.blits[k]
        IN  (b.object /\ ~b.clipped) =>
                RespectsPriority(b.v) = (b.class = 3)

\* C13 (amended): an object of class 3 (drained with _eraseBackground true)
\* is blitted with the rule that looks at the source pixel only, so it
\* overwrites destination pixels whose 0x80 bit is set; an object of class
\* 0, 1 or 2 is blitted with the rule that leaves those pixels alone, and a
\* drain of class 0, 1 or 2 changes no pixel whose 0x80 bit was set.
C13_Buffer3Overwrites ==
    [][/\ \A k \in 1 .. Len(loop'.blits) :
              LET b == loop'.blits[k]
              IN  (b.object /\ ~b.clipped) =>
                      RespectsPriority(b.v) = (b.class # 3)
       /\ (loop'.events # <<>>
             /\ Len(loop'.events) = Len(loop.events) + 1
             /\ loop'.events[Len(loop'.events)].ev = "drain"
             /\ loop'.events[Len(loop'.events)].class # 3)
            => \A o \in DOMAIN frontLayer' :
                   Pixel(frontLayer', o) # Pixel(frontLayer, o)
                       => Pixel(frontLayer, o) < 128]_vars

C13_Witness ==
    /\ status = "running"
    /\ loop.blits # <<>>
    /\ \A k \in 1 .. Len(loop.blits) :
           /\ loop.blits[k].object
           /\ loop.blits[k].class = 3
           /\ loop.blits[k].v = 1
    /\ \E o \in DOMAIN frontLayer : BackByte(o) >= 128

----------------------------------------------------------------------------
(* The object nodes: Resource::load_OBJ, decodeOBJ, free_OBJ                *)
(* A pointer to an ObjectNode is its place in heap; Null is the null        *)
(* pointer.  A map holds the slots that are not null.                       *)

MaxObjLoads == 2                \* calls of load_OBJ in one run

\* _numObjectNodes = 230 in decodeOBJ
AmigaObjectNodes == 230

\* the length of the data the offsets of a table point into
ObjLength == 30

\* _objectNodesMap[i]: a map is the sequence of its first slots, the slots
\* after them are null
Slot(map, i) == IF i < Len(map) THEN map[i + 1] ELSE Null

\* the map whose slots 0 .. Len(first) - 1 were assigned and whose other
\* slots are those of map
Assigned(first, map) == first \o SubSeq(map, Len(first) + 1, Len(map))

\* offsets[0 .. n] as load_OBJ and decodeOBJ read them from a file whose
\* table starts with the words of tbl and goes on with the length of the
\* data; offsets[n] is that length (f->size() - 2, size)
TableOffsets(tbl, n) ==
    [i \in 0 .. n |-> IF i < n /\ i < Len(tbl) THEN tbl[i + 1] ELSE ObjLength]

\* the first loop for the nodes lo .. hi - 1 (the range is halved to keep
\* the evaluation shallow): objectsCount[0 .. numObjectsCount - 1]
RECURSIVE ObjectsCountFrom(_, _, _)
ObjectsCountFrom(offsets, lo, hi) ==
    IF hi <= lo
    THEN <<>>
    ELSE IF hi = lo + 1
         THEN LET diff == offsets[lo + 1] - offsets[lo]
              IN  IF diff # 0
                  THEN <<ToUint16(CDiv(diff - 2, 18))>>
                  ELSE <<>>
         ELSE LET mid == (lo + hi) \div 2
              IN  ObjectsCountFrom(offsets, lo, mid)
                      \o ObjectsCountFrom(offsets, mid, hi)

\* if (prevOffset != offsets[i])
NodeStartsAlways(prevOffset, offset) == TRUE

NodeStarts(prevOffset, offset) == prevOffset # offset

\* one pass of the second loop: node i; d holds prevOffset, prevNode, iObj,
\* the slots assigned so far, the heap and whether error() was called.  An
\* element of objectsCount that the first loop did not write reads as
\* junk; the malloc of the node number failAt returns 0.
LoadNode(offsets, counts, junk, failAt, i, d) ==
    LET on == Len(d.heap) + 1
        num == IF d.iObj < Len(counts) THEN counts[d.iObj + 1] ELSE junk
    IN  IF d.error
        THEN d
        ELSE IF NodeStarts(d.prevOffset, offsets[i])
             THEN IF d.iObj + 1 = failAt
                  THEN [d EXCEPT !.error = TRUE]
                  ELSE [d EXCEPT
                           !.heap = Append(d.heap,
                                           [num_objects |-> num,
                                            freed |-> 0,
                                            objectsFreed |-> 0]),
                           !.iObj = d.iObj + 1,
                           !.prevOffset = offsets[i],
                           !.prevNode = on,
                           !.first = Append(d.first, on)]
             ELSE [d EXCEPT !.first = Append(d.first, d.prevNode)]

\* the second loop for the nodes lo .. hi - 1
RECURSIVE LoadNodesFrom(_, _, _, _, _, _, _)
LoadNodesFrom(offsets, counts, junk, failAt, lo, hi, d) ==
    IF hi <= lo
    THEN d
    ELSE IF hi = lo + 1
         THEN LoadNode(offsets, counts, junk, failAt, lo, d)
         ELSE LET mid == (lo + hi) \div 2
                  e == LoadNodesFrom(offsets, counts, junk, failAt,
                                     lo, mid, d)
              IN  IF e.error
                  THEN e
                  ELSE LoadNodesFrom(offsets, counts, junk, failAt,
                                     mid, hi, e)

\* if (_objectNodesMap[i] != prevNode)
NodeFreedIfSet(cur, prevNode) == cur # Null

NodeFreed(cur, prevNode) == cur # prevNode

\* one pass of the loop of free_OBJ: node i; d holds prevNode, the slots
\* assigned so far, the heap, the pointers given to free(curNode) and
\* whether curNode was null
FreeNode(i, d) ==
    LET cur == Slot(objectNodesMap, i)
    IN  IF d.crash
        THEN d
        ELSE IF NodeFreed(cur, d.prevNode)
             THEN IF cur = Null
                  THEN [d EXCEPT !.crash = TRUE]
                  ELSE [d EXCEPT
                           !.heap[cur].objectsFreed = @ + 1,
                           !.heap[cur].freed = @ + 1,
                           !.freed = Append(@, cur),
                           !.prevNode = cur,
                           !.first = Append(@, Null)]
             ELSE [d EXCEPT !.first = Append(@, Null)]

\* the loop of free_OBJ for the nodes lo .. hi - 1
RECURSIVE FreeNodesFrom(_, _, _)
FreeNodesFrom(lo, hi, d) ==
    IF hi <= lo
    THEN d
    ELSE IF hi = lo + 1
         THEN FreeNode(lo, d)
         ELSE LET mid == (lo + hi) \div 2
                  e == FreeNodesFrom(lo, mid, d)
              IN  IF e.crash THEN e ELSE FreeNodesFrom(mid, hi, e)

\* the offset tables of the files
ObjTables ==
    {<<>>,
     <<0, 10, 10>>,
     <<10, 10, 30>>,
     <<10, 0, 0>>,
     <<0, 0, 10>>,
     <<30, 30>>}

\* Resource::load_OBJ on a file that holds the table tbl
CallLoadOBJ(tbl, junk, failAt) ==
    LET n == IF type = "Amiga" THEN AmigaObjectNodes ELSE Len(tbl)
        offsets == TableOffsets(tbl, n)
        d == LoadNodesFrom(offsets, ObjectsCountFrom(offsets, 0, n), junk,
                           failAt, 0, n,
                           [prevOffset |-> 0, prevNode |-> Null, iObj |-> 0,
                            first |-> <<>>, heap |-> heap, error |-> FALSE])
    IN  /\ status = "running"
        /\ ocall.loads < MaxObjLoads
        /\ numObjectNodes' = n
        /\ objectNodesMap' = Assigned(d.first, objectNodesMap)
        /\ heap' = d.heap
        /\ ocall' = [op |-> "load", loads |-> ocall.loads + 1,
                     offsets |-> offsets, before |-> <<>>, freed |-> <<>>]
        /\ status' = IF d.error THEN "aborted" ELSE status
        /\ UNCHANGED <<bankRest, videoVars, animVars>>

\* Resource::clearLevelRes: free_OBJ
CallFreeOBJ ==
    LET d == FreeNodesFrom(0, numObjectNodes,
                           [prevNode |-> Null, first |-> <<>>, heap |-> heap,
                            freed |-> <<>>, crash |-> FALSE])
    IN  /\ status = "running"
        /\ objectNodesMap' = Assigned(d.first, objectNodesMap)
        /\ heap' = d.heap
        /\ ocall' = [op |-> "free", loads |-> ocall.loads,
                     offsets |-> <<>>, before |-> objectNodesMap,
                     freed |-> d.freed]
        /\ status' = IF d.crash THEN "aborted" ELSE status
        /\ UNCHANGED <<bankRest, videoVars, animVars, numObjectNodes>>

NextObj ==
    \/ \E tbl \in ObjTables, junk \in {0, 2}, failAt \in {0, 2} :
           CallLoadOBJ(tbl, junk, failAt)
    \/ CallFreeOBJ

SpecObj == InitBank /\ [][NextObj]_vars

----------------------------------------------------------------------------
(* Properties of the object nodes *)

\* the nodes held by the slots below n of a map
NodesOf(map, n) == {Slot(map, i) : i \in 0 .. (n - 1)} \ {Null}

\* how many times p is among the pointers given to free(curNode)
TimesFreed(freed, p) == Cardinality({k \in 1 .. Len(freed) : freed[k] = p})

\* load_OBJ has returned from a file of 3 nodes with the offsets 0, 10, 10
\* and a data length of 30
C19_Case ==
    /\ type = "DOS"
    /\ status = "running"
    /\ ocall.op = "load"
    /\ ocall.offsets = TableOffsets(<<0, 10, 10>>, 3)

\* C19: after load_OBJ or decodeOBJ, two consecutive node indices whose
\* offsets are equal hold the same pointer; for the offsets 0, 10, 10 with
\* length 30 the slots 1 and 2 hold one node, allocated by that call, and
\* the free_OBJ that follows frees that node once.
C19_EqualOffsetsShareNode ==
    [][/\ (ocall'.op = "load" /\ status' = "running") =>
              \A i \in 0 .. (numObjectNodes' - 2) :
                  ocall'.offsets[i] = ocall'.offsets[i + 1] =>
                      Slot(objectNodesMap', i) = Slot(objectNodesMap', i + 1)
       /\ C19_Case' =>
              /\ numObjectNodes' = 3
              /\ Slot(objectNodesMap', 1) = Slot(objectNodesMap', 2)
              /\ Slot(objectNodesMap', 1) \in (1 .. Len(heap')) \ (1 .. Len(heap))
              /\ heap'[Slot(objectNodesMap', 1)].freed = 0
       /\ (C19_Case /\ ocall'.op = "free") =>
              /\ TimesFreed(ocall'.freed, Slot(objectNodesMap, 1)) = 1
              /\ heap'[Slot(objectNodesMap, 1)].freed = 1
              /\ heap'[Slot(objectNodesMap, 1)].objectsFreed = 1]_vars

\* free_OBJ has run on the map of the offsets 0, 10, 10: slot 0 was null,
\* slots 1 and 2 held one node, and that node was freed once
C19_Witness ==
    /\ type = "DOS"
    /\ status = "running"
    /\ ocall.op = "free"
    /\ numObjectNodes = 3
    /\ Slot(ocall.before, 0) = Null
    /\ Slot(ocall.before, 1) # Null
    /\ Slot(ocall.before, 1) = Slot(ocall.before, 2)
    /\ ocall.freed = <<Slot(ocall.before, 1)>>
    /\ heap[Slot(ocall.before, 1)].freed = 1

\* C20: no node is ever freed twice; when free_OBJ returns, every node that
\* the slots below the node count held was freed exactly once by that call,
\* nothing else was freed, and every slot below the node count is null; a
\* free_OBJ that follows a free_OBJ frees nothing.
C20_FreeOnce ==
    [][/\ \A p \in 1 .. Len(heap') :
              /\ heap'[p].freed <= 1
              /\ heap'[p].objectsFreed = heap'[p].freed
       /\ (ocall'.op = "free" /\ status' = "running") =>
              /\ \A p \in NodesOf(ocall'.before, numObjectNodes') :
                     /\ TimesFreed(ocall'.freed, p) = 1
                     /\ heap'[p].freed = 1
              /\ \A k \in 1 .. Len(ocall'.freed) :
                     ocall'.freed[k] \in NodesOf(ocall'.before, numObjectNodes')
              /\ \A i \in 0 .. (numObjectNodes' - 1) :
                     Slot(objectNodesMap', i) = Null
       /\ (ocall.op = "free" /\ ocall'.op = "free") =>
              /\ ocall'.freed = <<>>
              /\ heap' = heap]_vars

\* free_OBJ has run on a map that held two nodes, one of them in two slots
C20_Witness ==
    /\ status = "running"
    /\ ocall.op = "free"
    /\ Len(ocall.freed) = 2
    /\ \E i \in 0 .. (numObjectNodes - 2) :
           /\ Slot(ocall.before, i) # Null
           /\ Slot(ocall.before, i) = Slot(ocall.before, i + 1)
    /\ \A i \in 0 .. (numObjectNodes - 1) : Slot(objectNodesMap, i) = Null

----------------------------------------------------------------------------
(* Further properties of the bank cache *)

\* C21: a loadBankData call that returns gives back the head as it is after
\* the optional clear (arena start when tail - head < size, the head of
\* before the call otherwise) and leaves the head that many bytes plus the
\* size of the bank further; this also holds when getBankDataSize and
\* findBankData were called just before it, and a step that only calls
\* those two leaves head, entries and count as they were.
C21_ReturnsHeadThenAdvances ==
    [][/\ (nLoads' = nLoads + 1 /\ lastCall'.op = "load"
             /\ status' = "running") =>
              LET size  == GetBankDataSize(lastCall'.num)
                  start == IF kBankDataSize - bankDataHead < size
                           THEN 0
                           ELSE bankDataHead
              IN  /\ lastCall'.ret = start
                  /\ bankDataHead' = start + size
       /\ (nLoads' = nLoads + 1 /\ lastCall'.op = "find") =>
              UNCHANGED <<bankDataHead, bankBuffers, bankBuffersCount>>
       /\ (pc = "lev_loop" /\ pc' = "lev_copy") =>
              lev'.d1 = GetBankDataSize(lev'.d0)]_vars

\* in the loop of the level decoder getBankDataSize and findBankData were
\* called, then loadBankData returned a pointer past the arena start without
\* a clear, and head is the size of the bank further
C21_Witness ==
    /\ LoadReturned
    /\ pc = "lev_copy"
    /\ lastCall.avail >= lastCall.size
    /\ lastCall.size > 0
    /\ lastCall.ret > 0
    /\ lev.a6 = lastCall.ret
    /\ bankDataHead = lastCall.ret + lastCall.size

----------------------------------------------------------------------------
(* Further properties of the sprite calls *)

\* the source pixel that a blit with the arguments loc reads for row r,
\* column i of its destination rectangle
BlitSource(pat, loc, r, i) ==
    SrcByte(pat, SpriteSrcIndex(loc.v, loc.base, loc.pitch, r, i))

\* C22: drawSpriteSub3 .. drawSpriteSub6 leave every destination pixel whose
\* bit 0x80 is set as it was; drawSpriteSub1 and drawSpriteSub2 write the
\* source pixel OR colMask over such a pixel whenever the source pixel is
\* not 0; the blit called by drawCharacter is one of drawSpriteSub3 ..
\* drawSpriteSub6.
C22_HighBitBlocks ==
    [][BlitRan =>
        LET loc == vcall'.loc
        IN  /\ \A r \in 0 .. (loc.h - 1), i \in 0 .. (loc.w - 1) :
                   LET o == loc.dst + GAMESCREEN_W * r + i
                       sv == BlitSource(vcall'.pat, loc, r, i)
                   IN  Pixel(frontLayer, o) >= 128 =>
                           /\ loc.v \in 3 .. 6 =>
                                  Pixel(frontLayer', o) = Pixel(frontLayer, o)
                           /\ (loc.v \in 1 .. 2 /\ sv # 0) =>
                                  Pixel(frontLayer', o) =
                                      OrByte(sv, loc.colMask)
            /\ vcall'.op = "drawCharacter" => loc.v \in 3 .. 6]_vars

\* drawCharacter has blitted a sprite over a pixel whose bit 0x80 is set
\* and whose source pixel is not 0, and the pixel was not written
C22_Witness ==
    /\ status = "running"
    /\ vcall.op = "drawCharacter"
    /\ ~vcall.loc.clipped
    /\ \E r \in 0 .. (vcall.loc.h - 1), i \in 0 .. (vcall.loc.w - 1) :
           LET o == vcall.loc.dst + GAMESCREEN_W * r + i
           IN  /\ BackByte(o) >= 128
               /\ BlitSource(vcall.pat, vcall.loc, r, i) # 0
               /\ o \notin DOMAIN frontLayer

\* a step of SpecDraw in which drawObjectFrame ran, or drawCharacter on a
\* sprite stored row by row
RowMajorDrawRan ==
    /\ CanDraw
    /\ vcall'.op \in {"drawObjectFrame", "drawCharacter"}
    /\ ~vcall'.sprite.var16

\* the columns and the rows of the raster covered by the sprite s
RasterColumns(s) ==
    {c \in 0 .. (GAMESCREEN_W - 1) : s.x <= c /\ c < s.x + s.w}

RasterRows(s) ==
    {r \in 0 .. (GAMESCREEN_H - 1) : s.y <= r /\ r < s.y + s.h}

\* C23: drawObjectFrame and drawCharacter (row by row) blit exactly the
\* pixels of the sprite rectangle that lie on the raster, and the pixel at
\* column c, row r of the raster is read from row r - y of the sprite, at
\* column c - x, or w - 1 - (c - x) when the sprite is mirrored.
C23_BlitIsRasterIntersection ==
    [][RowMajorDrawRan =>
        LET s == vcall'.sprite
            loc == vcall'.loc
        IN  IF RasterColumns(s) = {} \/ RasterRows(s) = {}
            THEN loc.clipped
            ELSE /\ ~loc.clipped
                 /\ DstOffsets(loc) =
                        {GAMESCREEN_W * r + c :
                            r \in RasterRows(s), c \in RasterColumns(s)}
                 /\ \A r \in RasterRows(s), c \in RasterColumns(s) :
                        SpriteSrcIndex(loc.v, loc.base, loc.pitch,
                                       r - loc.y, c - loc.x)
                            = (r - s.y) * s.w
                                  + (IF s.mir THEN s.w - 1 - (c - s.x)
                                     ELSE c - s.x)]_vars

\* C28: every call of markBlockAsDirty at the end of drawObjectFrame and of
\* drawCharacter is given a rectangle with x >= 0, y >= 0, w > 0, h > 0,
\* x + w <= 256 and y + h <= 224, and the process keeps running.
C28_MarkStaysOnRaster ==
    [][(CanDraw /\ vcall'.op \in {"drawObjectFrame", "drawCharacter"}
          /\ ~vcall'.loc.clipped) =>
        LET loc == vcall'.loc
        IN  /\ loc.x >= 0 /\ loc.y >= 0
            /\ loc.w > 0 /\ loc.h > 0
            /\ loc.x + loc.w <= GAMESCREEN_W
            /\ loc.y + loc.h <= GAMESCREEN_H
            /\ status' = "running"]_vars

----------------------------------------------------------------------------
(* Further properties of the dirty grid *)

\* a step of SpecDirty that is an updateScreen pass
PassRan ==
    /\ status = "running"
    /\ nMarks' = nMarks
    /\ shakeOffset' \in {0, shakeOffset}
    /\ vcall'.op = "updateScreen"

WholeRaster == <<Rect(0, 0, GAMESCREEN_W, GAMESCREEN_H)>>

\* C24: an updateScreen pass that starts with the full-refresh flag set
\* copies the one rectangle (0, 0, 256, 224), presents once, and leaves the
\* flag clear when the shake offset is 0; fullRefresh sets the flag and
\* leaves every countdown at 0.
C24_FullRefreshPass ==
    [][/\ (PassRan /\ fullRefresh) =>
              /\ copyRects' = WholeRaster
              /\ vcall'.full
              /\ Len(vcall'.presents) = 1
              /\ shakeOffset = 0 => ~fullRefresh'
       /\ vcall'.op = "fullRefresh" =>
              /\ fullRefresh'
              /\ \A b \in 0 .. (BlocksPerRow * BlockRows - 1) :
                     Countdown(screenBlocks', b) = 0]_vars

\* a pass with the flag set has copied the whole raster while blocks were
\* marked, and the flag is clear
C24_Witness ==
    /\ status = "running"
    /\ vcall.op = "updateScreen"
    /\ vcall.full
    /\ copyRects = WholeRaster
    /\ screenBlocks # EmptyMap
    /\ ~fullRefresh

\* C30: an updateScreen pass called with a nonzero shake offset leaves the
\* offset 0 and the full-refresh flag set, and the pass that follows copies
\* the whole raster and presents with shake 0; a pass called with shake
\* offset 0 leaves the flag clear; a pass presents at most once, and not at
\* all when the flag is clear and every countdown is 0.
C30_ShakeForcesFullRefresh ==
    [][PassRan =>
        /\ shakeOffset # 0 => (shakeOffset' = 0 /\ fullRefresh')
        /\ shakeOffset = 0 => ~fullRefresh'
        /\ Len(vcall'.presents) <= 1
        /\ (~fullRefresh /\ \A b \in 0 .. (BlocksPerRow * BlockRows - 1) :
                               Countdown(screenBlocks, b) = 0)
               => vcall'.presents = <<>>
        /\ (vcall.op = "updateScreen" /\ vcall.shake # 0 /\ shakeOffset = 0)
               => /\ vcall'.full
                  /\ copyRects' = WholeRaster
                  /\ vcall'.presents = <<0>>]_vars

\* a pass without the flag was called with a nonzero shake offset: it has
\* presented with that offset, the offset is 0 and the flag is set
C30_Witness ==
    /\ status = "running"
    /\ vcall.op = "updateScreen"
    /\ ~vcall.full
    /\ vcall.shake # 0
    /\ vcall.presents = <<vcall.shake>>
    /\ shakeOffset = 0
    /\ fullRefresh

----------------------------------------------------------------------------
(* Further properties of the iteration *)

\* a step of SpecFrame that is a call of drawAnimBuffer, after which the
\* process runs
DrainRan ==
    /\ Len(loop'.events) = Len(loop.events) + 1
    /\ loop'.events[Len(loop'.events)].ev = "drain"
    /\ status' = "running"

\* C25: drawAnimBuffer on a class with n entries (cursor n - 1, or 0xFF for
\* n = 0) draws the entries n, n - 1, .. 1, the last added first, and
\* nothing for n = 0; it leaves the cursor at 0xFF and the write pointer at
\* the start of the array.  Only class 1 with an odd blinking counter draws
\* fewer: the entries above the first character it meets.
C25_DrainsLastAddedFirst ==
    [][DrainRan =>
        LET c == loop'.events[Len(loop'.events)].class
            n == Len(animBuffer[c])
            new == SubSeq(loop'.blits, Len(loop.blits) + 1, Len(loop'.blits))
            chars == {k \in 1 .. n : Bit(animBuffer[c][k].pge.flags, 3) = 0}
            stop == IF c = 1 /\ loop.blink % 2 = 1 /\ chars # {}
                    THEN CHOOSE k \in chars : \A j \in chars : j <= k
                    ELSE 0
        IN  /\ curPos[c] = (IF n = 0 THEN 255 ELSE n - 1)
            /\ Len(new) = n - stop
            /\ \A j \in 1 .. Len(new) :
                   /\ new[j].class = c
                   /\ new[j].entry = n + 1 - j
                   /\ new[j].state = animBuffer[c][n + 1 - j]
            /\ curPos'[c] = 255
            /\ states'[c] = 0]_vars

\* the drain of class 0 has drawn two entries, the second one first
C25_Witness ==
    /\ status = "running"
    /\ loop.events # <<>>
    /\ loop.events[Len(loop.events)] =
           [ev |-> "drain", class |-> 0, erase |-> FALSE]
    /\ Len(loop.blits) >= 2
    /\ loop.blits[Len(loop.blits) - 1].class = 0
    /\ loop.blits[Len(loop.blits) - 1].entry = 2
    /\ loop.blits[Len(loop.blits)].class = 0
    /\ loop.blits[Len(loop.blits)].entry = 1
    /\ loop.blits[Len(loop.blits)].state # loop.blits[Len(loop.blits) - 1].state

----------------------------------------------------------------------------
(* Further properties of the room decode *)

\* the positions of Video::PC_decodeLev between its first and its last
\* statement
LevPcs == {"lev_loop", "lev_copy", "lev_done"}

\* the arena below the head holds bytes of the table tbl only, and so does
\* every live entry
ArenaOf(head, count, slots, mem, tbl) ==
    /\ \A r \in mem : r.start < head => r.blob = tbl
    /\ \A i \in 0 .. (count - 1) :
           \A r \in mem :
               (r.start <= slots[i].ptr /\ slots[i].ptr < RunEnd(r))
                   => r.blob = tbl

\* C29: on DOS the BNQ table is the active table exactly while
\* PC_decodeLev runs: the call saves the active table, empties the cache
\* before its first load, and on return restores the table and leaves the
\* cache empty (head at the arena start, no live entry); at no time does
\* the cache hold, below its head or in a live entry, bytes loaded from the
\* table that is not active.
C29_BnqOnlyDuringDecode ==
    [][type = "DOS" =>
        /\ (pc = "idle" /\ pc' = "lev_loop") =>
               /\ mbk' = "BNQ"
               /\ lev'.tmp = mbk
               /\ bankDataHead' = 0
               /\ bankBuffersCount' = 0
        /\ (pc \in LevPcs /\ pc' \in LevPcs) =>
               /\ mbk = "BNQ"
               /\ mbk' = mbk
               /\ lev'.tmp = lev.tmp
        /\ (pc = "lev_done" /\ pc' = "idle") =>
               /\ mbk' = lev.tmp
               /\ mbk' # "BNQ"
               /\ bankDataHead' = 0
               /\ bankBuffersCount' = 0
        /\ (pc \notin LevPcs /\ pc' \notin LevPcs) =>
               /\ mbk # "BNQ"
               /\ mbk' = mbk
        /\ ArenaOf(bankDataHead', bankBuffersCount', bankBuffers', bankData',
                   mbk')]_vars

\* PC_decodeLev has returned after loading from the BNQ table, and a bank
\* of the MBK table was loaded after it
C29_Witness ==
    /\ type = "DOS"
    /\ status = "running"
    /\ pc = "idle"
    /\ mbk = "MBK"
    /\ LoadDone
    /\ bankDataHead > 0
    /\ \E r \in bankData : r.blob = "BNQ"
    /\ \E r \in bankData : r.blob = "MBK" /\ r.start = 0

----------------------------------------------------------------------------
(* Further properties of the object nodes *)

\* load_OBJ or decodeOBJ has returned
ObjLoaded == ocall.op = "load" /\ status = "running"

\* node index i is the first one that holds its node: the node was
\* allocated in pass i of the second loop
AllocatedAt(map, i) ==
    /\ Slot(map, i) # Null
    /\ \A k \in 0 .. (i - 1) : Slot(map, k) # Slot(map, i)

\* the first offset after index i that differs from offsets[i], the last
\* element (the length of the data) when there is none
NextOffset(offsets, n, i) ==
    LET later == {k \in (i + 1) .. n : offsets[k] # offsets[i]}
    IN  IF later = {} THEN offsets[n]
        ELSE offsets[CHOOSE k \in later : \A j \in later : k <= j]

\* C26: every node allocated at index i has
\* num_objects = (nextOffset - offsets[i] - 2) / 18, nextOffset being the
\* first following offset that differs from offsets[i], the length of the
\* data for the last distinct node.
C26_CountFromNextOffset ==
    ObjLoaded =>
        \A i \in 0 .. (numObjectNodes - 1) :
            AllocatedAt(objectNodesMap, i) =>
                heap[Slot(objectNodesMap, i)].num_objects =
                    ToUint16(CDiv(NextOffset(ocall.offsets, numObjectNodes, i)
                                      - ocall.offsets[i] - 2, 18))

\* C27: the nodes allocated are never more than the counts computed by the
\* first loop, so that every node reads a written element of objectsCount,
\* and node index 0 holds a node.
C27_CountsCoverNodes ==
    ObjLoaded =>
        /\ Cardinality(NodesOf(objectNodesMap, numObjectNodes))
               <= Len(ObjectsCountFrom(ocall.offsets, 0, numObjectNodes))
        /\ numObjectNodes > 0 => Slot(objectNodesMap, 0) # Null

====
